---- MODULE Spec2Model ----
(***************************************************************************)
(* A model of StringDictionary (src/StringDictionary/StringDictionary.cpp):*)
(* an append-only map from byte strings to dense 32-bit ids, backed by a   *)
(* payload region and an array of offset records, with an open-addressed   *)
(* index in memory.                                                        *)
(*                                                                         *)
(* Strings are sequences of bytes.  32-bit hashes are kept as two 16-bit   *)
(* limbs <<hi, lo>> so that the wrapping multiplication of rk_hash is      *)
(* computed exactly.  Vectors are sequences; element i of the C++ vector   *)
(* is element i + 1 of the sequence.                                       *)
(***************************************************************************)
EXTENDS Integers, Sequences, FiniteSets, TLC

VARIABLES
  dict,      \* the StringDictionary object: a record of its fields
  files,     \* the folder of a persistent dictionary: DictPayload and DictOffsets
  ret,       \* the last completed call of the sequential client: op, argument, value
  added,     \* history: the strings in the order in which they were first added
  rw_mutex,  \* the readers/writer lock: the threads holding it shared, and its owner
  pc,        \* per thread: its position inside getOrAddImpl
  call,      \* per thread: the argument of its call and, once returned, the value
  bulk,      \* the activation of getOrAddBulk: its arguments, out_idx, encoded_vec
  scan       \* the activation of a scan with workers: arguments, worker positions, results

vars == <<dict, files, ret, added, rw_mutex, pc, call, bulk, scan>>

----------------------------------------------------------------------------
(* Bounds of the model *)

\* no insert is started once str_count has reached this number
MaxStrCount == 4

\* the size in bytes of one growth step of a storage file; stands for
\* CANARY_BUFF_SIZE = 1024 * SYSTEM_PAGE_SIZE
CanaryBuffSize == 8

----------------------------------------------------------------------------
(* Constants of the program *)

INVALID_STR_ID == -1

\* the size field of a record that was never written: 16 bits of 0xFF
CanarySize == 65535

\* a byte of the canary buffer
CanaryByte == 255

\* sizeof(StringIdxEntry): a 48-bit offset and a 16-bit size
SizeofStringIdxEntry == 8

MAX_STRLEN == 32767

MAX_STRCOUNT == 2147483647

\* inline_int_null_value<int32_t>(): the minimum signed 32-bit value
NullValueInt32 == -2147483647 - 1

\* the result of a loop that never exits
Diverges == -2

\* the result of a call that ends in a failed CHECK
Aborted == -3

\* the value of a call that writes past the end of rk_hashes_: what the
\* program does from there on is undefined
OutOfBounds == -4

\* a call that does not return a value
Failed(val) == val = Diverges \/ val = Aborted \/ val = OutOfBounds

----------------------------------------------------------------------------
(* Strings *)

StrA  == <<97>>
StrB  == <<98>>
StrC  == <<99>>
StrAB == <<97, 98>>
StrAC == <<97, 99>>
StrBB == <<98, 98>>
Empty == <<>>

\* the non-empty strings clients pass in
Strings == {StrA, StrB, StrC, StrAB, StrAC, StrBB}

\* what a client may pass to a call taking a string
Inputs == Strings \cup {Empty}

Max(a, b) == IF a >= b THEN a ELSE b
Min(a, b) == IF a <= b THEN a ELSE b

RECURSIVE BitAnd(_, _)
BitAnd(a, b) ==
  IF a = 0 \/ b = 0 THEN 0
  ELSE (a % 2) * (b % 2) + 2 * BitAnd(a \div 2, b \div 2)

RECURSIVE BitOr(_, _)
BitOr(a, b) ==
  IF a = 0 THEN b
  ELSE IF b = 0 THEN a
  ELSE Max(a % 2, b % 2) + 2 * BitOr(a \div 2, b \div 2)

----------------------------------------------------------------------------
(* Hashing: rk_hash *)

\* str_hash * 997 + byte, wrapping at 32 bits, on limbs <<hi, lo>>
rk_step(h, byte) ==
  LET lo == h[2] * 997 + byte
      hi == h[1] * 997 + (lo \div 65536)
  IN  <<hi % 65536, lo % 65536>>

RECURSIVE rk_fold(_, _, _)
rk_fold(h, str, i) ==
  IF i > Len(str) THEN h ELSE rk_fold(rk_step(h, str[i]), str, i + 1)

rk_hash(str) == rk_fold(<<0, 1>>, str, 1)

\* hash & (size - 1) for a vector of size >= 1 and at most 2^16
HomeBucket(hash, size) == BitAnd(hash[2], size - 1)

----------------------------------------------------------------------------
(* Storage *)

CanaryEntry == [off |-> -1, size |-> CanarySize]

CanaryBytes(n) == [i \in 1..n |-> CanaryByte]

CanaryEntries(n) == [i \in 1..n |-> CanaryEntry]

\* the records an offsets mapping of the given size in bytes holds
EntriesIn(bytes) == bytes \div SizeofStringIdxEntry

\* memcpy(dst + at, src, Len(src)) on sequences
Memcpy(dst, at, src) ==
  [i \in 1..Len(dst) |->
     IF i > at /\ i <= at + Len(src) THEN src[i - at] ELSE dst[i]]

getStringFromStorage(d, string_id) ==
  LET str_meta == d.offset_map[string_id + 1]
  IN  IF str_meta.size = CanarySize
      THEN [canary |-> TRUE, str |-> Empty]
      ELSE [canary |-> FALSE,
            str |-> SubSeq(d.payload_map, str_meta.off + 1,
                           str_meta.off + str_meta.size)]

getStringChecked(d, string_id) == getStringFromStorage(d, string_id).str

\* addPayloadCapacity whose larger buffer does not take over the bytes of
\* the old one
addPayloadCapacity_freshBuffer(d) ==
  [d EXCEPT !.payload_map = CanaryBytes(d.payload_file_size + CanaryBuffSize),
            !.payload_file_size = d.payload_file_size + CanaryBuffSize]

\* addStorageCapacity / addMemoryCapacity through addPayloadCapacity
addPayloadCapacity(d) ==
  [d EXCEPT !.payload_map = d.payload_map \o CanaryBytes(CanaryBuffSize),
            !.payload_file_size = d.payload_file_size + CanaryBuffSize]

\* addStorageCapacity / addMemoryCapacity through addOffsetCapacity
addOffsetCapacity(d) ==
  LET size == d.offset_file_size + CanaryBuffSize
  IN  [d EXCEPT !.offset_map =
                  d.offset_map \o
                  CanaryEntries(EntriesIn(size) - Len(d.offset_map)),
                !.offset_file_size = size]

\* the append with the offset of the record taken after payload_file_off
\* has been advanced
appendToStorage_offsetAfterAdvance(d, str) ==
  LET d1 == IF d.payload_file_off + Len(str) > d.payload_file_size
            THEN addPayloadCapacity(d) ELSE d
      d2 == [d1 EXCEPT !.payload_map =
                         Memcpy(d1.payload_map, d1.payload_file_off, str)]
      offset_file_off == d.str_count * SizeofStringIdxEntry
      d3 == [d2 EXCEPT !.payload_file_off = d2.payload_file_off + Len(str)]
      str_meta == [off |-> d3.payload_file_off, size |-> Len(str)]
      d4 == IF offset_file_off + SizeofStringIdxEntry >= d3.offset_file_size
            THEN addOffsetCapacity(d3) ELSE d3
  IN  [d4 EXCEPT !.offset_map[d.str_count + 1] = str_meta]

\* appendToStorage: grows if needed, writes the payload, then the record;
\* payload_file_off is advanced here, str_count by the caller
appendToStorage(d, str) ==
  LET d1 == IF d.payload_file_off + Len(str) > d.payload_file_size
            THEN addPayloadCapacity(d) ELSE d
      d2 == [d1 EXCEPT !.payload_map =
                         Memcpy(d1.payload_map, d1.payload_file_off, str)]
      offset_file_off == d.str_count * SizeofStringIdxEntry
      str_meta == [off |-> d.payload_file_off, size |-> Len(str)]
      d3 == [d2 EXCEPT !.payload_file_off = d2.payload_file_off + Len(str)]
      d4 == IF offset_file_off + SizeofStringIdxEntry >= d3.offset_file_size
            THEN addOffsetCapacity(d3) ELSE d3
  IN  [d4 EXCEPT !.offset_map[d.str_count + 1] = str_meta]

----------------------------------------------------------------------------
(* The index *)

\* the comparison of the probe on the length alone
SameString_lengthOnly(d, hash, str, old_id) ==
  Len(str) = Len(getStringFromStorage(d, old_id).str)

\* the comparison of computeBucket: the string of id old_id against str
SameString(d, hash, str, old_id) ==
  IF d.materialize_hashes
  THEN /\ hash = d.rk_hashes[old_id + 1]
       /\ str = getStringFromStorage(d, old_id).str
  ELSE str = getStringFromStorage(d, old_id).str

RECURSIVE computeBucketFrom(_, _, _, _, _, _, _)
computeBucketFrom(d, hash, str, data, unique, bucket, steps) ==
  IF steps = Len(data) THEN Diverges
  ELSE IF data[bucket + 1] = INVALID_STR_ID THEN bucket
  ELSE IF ~unique /\ SameString(d, hash, str, data[bucket + 1]) THEN bucket
  ELSE computeBucketFrom(d, hash, str, data, unique,
                         IF bucket + 1 = Len(data) THEN 0 ELSE bucket + 1,
                         steps + 1)

\* computeBucket: the first slot from the home bucket that is empty or holds
\* str; Diverges when the loop visits every slot without finding one
computeBucket(d, hash, str, data, unique) ==
  computeBucketFrom(d, hash, str, data, unique, HomeBucket(hash, Len(data)), 0)

RECURSIVE computeUniqueBucketFrom(_, _, _)
computeUniqueBucketFrom(data, bucket, steps) ==
  IF steps = Len(data) THEN Diverges
  ELSE IF data[bucket + 1] = INVALID_STR_ID THEN bucket
  ELSE computeUniqueBucketFrom(data,
                               IF bucket + 1 = Len(data) THEN 0 ELSE bucket + 1,
                               steps + 1)

computeUniqueBucketWithHash(hash, data) ==
  computeUniqueBucketFrom(data, HomeBucket(hash, Len(data)), 0)

\* the index counted full only when it holds more strings than slots
fillRateIsHighAt_full(size, str_count) == size < str_count

\* str_ids_.size() < str_count_ * 2, on the two sizes
fillRateIsHighAt(size, str_count) == size < str_count * 2

fillRateIsHigh(d) == fillRateIsHighAt(Len(d.str_ids), d.str_count)

\* the loop of increaseCapacity over the old table (materialized hashes):
\* the slots i with lo <= i < hi in increasing order, the first half of the
\* range before the second
RECURSIVE rebucketFromTable(_, _, _, _)
rebucketFromTable(d, new_str_ids, lo, hi) ==
  IF hi <= lo THEN new_str_ids
  ELSE IF hi = lo + 1
  THEN IF d.str_ids[lo + 1] = INVALID_STR_ID THEN new_str_ids
       ELSE LET hash == d.rk_hashes[d.str_ids[lo + 1] + 1]
                bucket == computeUniqueBucketWithHash(hash, new_str_ids)
            IN  [new_str_ids EXCEPT ![bucket + 1] = d.str_ids[lo + 1]]
  ELSE LET mid == (lo + hi) \div 2
           first == rebucketFromTable(d, new_str_ids, lo, mid)
       IN  IF Len(first) = 0 THEN first
           ELSE rebucketFromTable(d, first, mid, hi)

\* the loop over the ids that puts each id in the home bucket of its hash
RECURSIVE rebucketFromStorage_homeOnly(_, _, _, _)
rebucketFromStorage_homeOnly(d, new_str_ids, lo, hi) ==
  IF hi <= lo THEN new_str_ids
  ELSE IF hi = lo + 1
  THEN LET hash == rk_hash(getStringChecked(d, lo))
           bucket == HomeBucket(hash, Len(new_str_ids))
       IN  [new_str_ids EXCEPT ![bucket + 1] = lo]
  ELSE LET mid == (lo + hi) \div 2
           first == rebucketFromStorage_homeOnly(d, new_str_ids, lo, mid)
       IN  IF Len(first) = 0 THEN first
           ELSE rebucketFromStorage_homeOnly(d, first, mid, hi)

\* the loop of increaseCapacity over the ids (hashes recomputed from storage):
\* the ids i with lo <= i < hi in increasing order
RECURSIVE rebucketFromStorage(_, _, _, _)
rebucketFromStorage(d, new_str_ids, lo, hi) ==
  IF hi <= lo THEN new_str_ids
  ELSE IF hi = lo + 1
  THEN LET hash == rk_hash(getStringChecked(d, lo))
           bucket == computeUniqueBucketWithHash(hash, new_str_ids)
       IN  [new_str_ids EXCEPT ![bucket + 1] = lo]
  ELSE LET mid == (lo + hi) \div 2
           first == rebucketFromStorage(d, new_str_ids, lo, mid)
       IN  IF Len(first) = 0 THEN first
           ELSE rebucketFromStorage(d, first, mid, hi)

\* the resize that allocates the new table and leaves it empty
increaseCapacity_noRehash(d) ==
  [d EXCEPT !.str_ids = [i \in 1..(Len(d.str_ids) * 2) |-> INVALID_STR_ID],
            !.rk_hashes = IF d.materialize_hashes
                          THEN d.rk_hashes \o [i \in 1..Len(d.rk_hashes) |-> <<0, 0>>]
                          ELSE d.rk_hashes]

increaseCapacity(d) ==
  LET new_str_ids == [i \in 1..(Len(d.str_ids) * 2) |-> INVALID_STR_ID]
  IN  IF d.materialize_hashes
      THEN [d EXCEPT !.str_ids = rebucketFromTable(d, new_str_ids, 0, Len(d.str_ids)),
                     !.rk_hashes = d.rk_hashes \o
                                   [i \in 1..Len(d.rk_hashes) |-> <<0, 0>>]]
      ELSE [d EXCEPT !.str_ids = rebucketFromStorage(d, new_str_ids, 0, d.str_count)]

\* invalidateInvertedIndex that leaves the equal cache
invalidateInvertedIndex_keepEqual(d) ==
  [d EXCEPT !.like_cache = <<>>, !.regex_cache = <<>>, !.compare_cache = <<>>]

invalidateInvertedIndex(d) ==
  [d EXCEPT !.like_cache = <<>>, !.regex_cache = <<>>,
            !.equal_cache = <<>>, !.compare_cache = <<>>]

----------------------------------------------------------------------------
(* Construction without recovery *)

\* the member initialisers of the constructor
InitialFields(isTemp, materializeHashes, initial_capacity) ==
  [str_count |-> 0,
   str_ids |-> [i \in 1..initial_capacity |-> INVALID_STR_ID],
   rk_hashes |-> [i \in 1..initial_capacity |-> <<0, 0>>],
   isTemp |-> isTemp,
   materialize_hashes |-> materializeHashes,
   offset_map |-> <<>>,
   payload_map |-> <<>>,
   offset_file_size |-> 0,
   payload_file_size |-> 0,
   payload_file_off |-> 0,
   sorted_cache |-> <<>>,
   like_cache |-> <<>>,
   regex_cache |-> <<>>,
   equal_cache |-> <<>>,
   compare_cache |-> <<>>,
   strings_cache |-> [present |-> FALSE, strings |-> <<>>]]

\* the constructor up to the recover branch, on empty (or truncated) files
OpenEmpty(isTemp, materializeHashes, initial_capacity) ==
  addOffsetCapacity(
    addPayloadCapacity(
      InitialFields(isTemp, materializeHashes, initial_capacity)))

----------------------------------------------------------------------------
(* Single insert and the lookups *)

\* the read-locked probe of getOrAddImpl: a bucket, or Diverges
getOrAddImplProbe(d, str) ==
  computeBucket(d, rk_hash(str), str, d.str_ids, FALSE)

\* whether rk_hashes_[str_count_], written when a string is installed, lies
\* within rk_hashes_ (after the resize, when the fill rate asks for one)
hashWriteInBounds(d) ==
  LET d1 == IF fillRateIsHigh(d) THEN increaseCapacity(d) ELSE d
  IN  ~d1.materialize_hashes \/ d1.str_count < Len(d1.rk_hashes)

\* the insert that writes the slot with the count taken after ++str_count_
installNew_idAfterIncrement(d, hash, str, bucket) ==
  LET grow == fillRateIsHigh(d)
      d1 == IF grow THEN increaseCapacity(d) ELSE d
      bucket1 == IF grow
                 THEN computeBucket(d1, hash, str, d1.str_ids, FALSE)
                 ELSE bucket
      d2 == appendToStorage(d1, str)
      d3 == [d2 EXCEPT !.str_ids[bucket1 + 1] = d2.str_count + 1]
      d4 == IF d3.materialize_hashes
            THEN [d3 EXCEPT !.rk_hashes[d3.str_count + 1] = hash]
            ELSE d3
  IN  [d |-> [d4 EXCEPT !.str_count = d4.str_count + 1], bucket |-> bucket1]

\* the body of "if (str_ids_[bucket] == INVALID_STR_ID)" in getOrAddImpl and
\* getOrAddBulk, up to ++str_count_: the object afterwards and the bucket used
installNew(d, hash, str, bucket) ==
  LET grow == fillRateIsHigh(d)
      d1 == IF grow THEN increaseCapacity(d) ELSE d
      bucket1 == IF grow
                 THEN computeBucket(d1, hash, str, d1.str_ids, FALSE)
                 ELSE bucket
      d2 == appendToStorage(d1, str)
      d3 == [d2 EXCEPT !.str_ids[bucket1 + 1] = d2.str_count]
      d4 == IF d3.materialize_hashes
            THEN [d3 EXCEPT !.rk_hashes[d3.str_count + 1] = hash]
            ELSE d3
  IN  [d |-> [d4 EXCEPT !.str_count = d4.str_count + 1], bucket |-> bucket1]

\* the write-locked section that takes the first empty slot without looking
\* for the string again
getOrAddImplInsert_noReprobe(d, str) ==
  LET hash == rk_hash(str)
      bucket == computeBucket(d, hash, str, d.str_ids, TRUE)
  IN  IF bucket = Diverges THEN [d |-> d, val |-> Diverges]
      ELSE IF ~(d.str_count < MAX_STRCOUNT) THEN [d |-> d, val |-> Aborted]
      ELSE IF ~hashWriteInBounds(d) THEN [d |-> d, val |-> OutOfBounds]
      ELSE LET r == installNew(d, hash, str, bucket)
           IN  [d |-> invalidateInvertedIndex(r.d),
                val |-> r.d.str_ids[r.bucket + 1]]

\* the write-locked section of getOrAddImpl: the object afterwards and the
\* value returned
getOrAddImplInsert(d, str) ==
  LET hash == rk_hash(str)
      bucket == computeBucket(d, hash, str, d.str_ids, FALSE)
  IN  IF bucket = Diverges THEN [d |-> d, val |-> Diverges]
      ELSE IF d.str_ids[bucket + 1] # INVALID_STR_ID
      THEN [d |-> d, val |-> d.str_ids[bucket + 1]]
      ELSE IF ~(d.str_count < MAX_STRCOUNT) THEN [d |-> d, val |-> Aborted]
      ELSE IF ~hashWriteInBounds(d) THEN [d |-> d, val |-> OutOfBounds]
      ELSE LET r == installNew(d, hash, str, bucket)
           IN  [d |-> invalidateInvertedIndex(r.d),
                val |-> r.d.str_ids[r.bucket + 1]]

\* getOrAddImpl without the early return on the empty string
getOrAddImpl_emptyAsString(d, str) ==
  IF ~(Len(str) <= MAX_STRLEN) THEN [d |-> d, val |-> Aborted]
  ELSE LET bucket == getOrAddImplProbe(d, str)
       IN  IF bucket = Diverges THEN [d |-> d, val |-> Diverges]
           ELSE IF d.str_ids[bucket + 1] # INVALID_STR_ID
           THEN [d |-> d, val |-> d.str_ids[bucket + 1]]
           ELSE getOrAddImplInsert(d, str)

\* getOrAddImpl run by one thread with no other thread in between
getOrAddImpl(d, str) ==
  IF Len(str) = 0 THEN [d |-> d, val |-> NullValueInt32]
  ELSE IF ~(Len(str) <= MAX_STRLEN) THEN [d |-> d, val |-> Aborted]
  ELSE LET bucket == getOrAddImplProbe(d, str)
       IN  IF bucket = Diverges THEN [d |-> d, val |-> Diverges]
           ELSE IF d.str_ids[bucket + 1] # INVALID_STR_ID
           THEN [d |-> d, val |-> d.str_ids[bucket + 1]]
           ELSE getOrAddImplInsert(d, str)

\* getIdOfString through getUnlocked: an id, INVALID_STR_ID, or Diverges
getUnlocked(d, str) ==
  LET bucket == computeBucket(d, rk_hash(str), str, d.str_ids, FALSE)
  IN  IF bucket = Diverges THEN Diverges ELSE d.str_ids[bucket + 1]

\* getString through getStringUnlocked and getStringChecked
getStringUnlocked(d, string_id) ==
  IF ~(string_id < d.str_count) \/ ~(string_id >= 0) THEN [ok |-> FALSE, str |-> Empty]
  ELSE LET str_canary == getStringFromStorage(d, string_id)
       IN  [ok |-> ~str_canary.canary, str |-> str_canary.str]

storageEntryCount(d) == d.str_count

----------------------------------------------------------------------------
(* The sequential client: one call at a time, each run to its end *)

Range(seq) == {seq[i] : i \in 1..Len(seq)}

\* the position of a string in the history, counted from 0
IdOf(seq, str) == CHOOSE i \in 0..(Len(seq) - 1) : seq[i + 1] = str

NoThreads == <<>>
NoFiles == [exists |-> FALSE]
NoBulk == [active |-> FALSE]
NoScan == [active |-> FALSE]
Unlocked == [readers |-> {}, writer |-> 0]

\* a call that never returns leaves the client inside it for ever
Running == ret.op # "hung" /\ ret.op # "aborted" /\ ret.op # "undefined"

\* what the client sees of a call that ended with value val
Outcome(op, arg, val) ==
  IF val = Diverges THEN [op |-> "hung", arg |-> arg, val |-> val]
  ELSE IF val = Aborted THEN [op |-> "aborted", arg |-> arg, val |-> val]
  ELSE IF val = OutOfBounds THEN [op |-> "undefined", arg |-> arg, val |-> val]
  ELSE [op |-> op, arg |-> arg, val |-> val]

InitialCapacities == {1, 2, 4}

Init ==
  /\ \E initial_capacity \in InitialCapacities, materializeHashes \in BOOLEAN :
       dict = OpenEmpty(TRUE, materializeHashes, initial_capacity)
  /\ files = NoFiles
  /\ ret = [op |-> "open", arg |-> Empty, val |-> 0]
  /\ added = <<>>
  /\ rw_mutex = Unlocked
  /\ pc = NoThreads
  /\ call = NoThreads
  /\ bulk = NoBulk
  /\ scan = NoScan

\* the history after a call of an insert with str that ended with val
AddedAfter(str, val) ==
  IF str # Empty /\ str \notin Range(added) /\ ~Failed(val)
  THEN Append(added, str) ELSE added

GetOrAdd(str) ==
  /\ Running
  /\ ~bulk.active
  /\ Len(added) < MaxStrCount \/ str \in Range(added) \/ str = Empty
  /\ LET r == getOrAddImpl(dict, str)
     IN  /\ dict' = r.d
         /\ ret' = Outcome("getOrAdd", str, r.val)
         /\ added' = AddedAfter(str, r.val)
  /\ UNCHANGED <<files, rw_mutex, pc, call, bulk, scan>>

GetIdOfString(str) ==
  /\ Running
  /\ ~bulk.active
  /\ ret' = Outcome("getIdOfString", str, getUnlocked(dict, str))
  /\ UNCHANGED <<dict, files, added, rw_mutex, pc, call, bulk, scan>>

GetString(string_id) ==
  /\ Running
  /\ ~bulk.active
  /\ LET r == getStringUnlocked(dict, string_id)
     IN  ret' = IF r.ok THEN Outcome("getString", r.str, string_id)
                ELSE Outcome("getString", Empty, Aborted)
  /\ UNCHANGED <<dict, files, added, rw_mutex, pc, call, bulk, scan>>

Next ==
  \/ \E str \in Inputs : GetOrAdd(str)
  \/ \E str \in Inputs : GetIdOfString(str)
  \/ \E string_id \in 0..(dict.str_count - 1) : GetString(string_id)

Spec == Init /\ [][Next]_vars

----------------------------------------------------------------------------
(* Bulk insert *)

Widths == {"uint8_t", "uint16_t", "int32_t"}

Bits(T) == IF T = "uint8_t" THEN 8 ELSE IF T = "uint16_t" THEN 16 ELSE 32

\* max_valid_int_value<T>(): the largest code of width T that is an id
max_valid_int_value(T) ==
  IF T = "uint8_t" THEN 255 ELSE IF T = "uint16_t" THEN 65535 ELSE 2147483647

\* inline_int_null_value<T>(): the minimum signed value of the width of T
inline_int_null_value(T) ==
  IF T = "uint8_t" THEN 128 ELSE IF T = "uint16_t" THEN 32768
  ELSE NullValueInt32

\* the conversion of an id to T on the store into encoded_vec
StoreAs(T, string_id) ==
  IF T = "int32_t" THEN string_id ELSE string_id % (2 ^ Bits(T))

\* the iteration that writes str_count, read after its increment, for a new
\* string
getOrAddBulkStep_countAfterIncrement(d, str, T) ==
  IF Len(str) = 0 THEN [d |-> d, code |-> inline_int_null_value(T)]
  ELSE IF ~(Len(str) <= MAX_STRLEN) THEN [d |-> d, code |-> Aborted]
  ELSE
    LET hash == rk_hash(str)
        bucket == computeBucket(d, hash, str, d.str_ids, FALSE)
    IN  IF bucket = Diverges THEN [d |-> d, code |-> Diverges]
        ELSE IF d.str_ids[bucket + 1] # INVALID_STR_ID
        THEN [d |-> d, code |-> StoreAs(T, d.str_ids[bucket + 1])]
        ELSE IF d.str_count = max_valid_int_value(T)
        THEN [d |-> d, code |-> inline_int_null_value(T)]
        ELSE IF ~(d.str_count < MAX_STRCOUNT) THEN [d |-> d, code |-> Aborted]
        ELSE IF ~hashWriteInBounds(d) THEN [d |-> d, code |-> OutOfBounds]
        ELSE LET r == installNew(d, hash, str, bucket)
             IN  [d |-> r.d, code |-> StoreAs(T, r.d.str_count)]

\* one iteration of the loop of getOrAddBulk<T>: the object afterwards and the
\* code written to encoded_vec[out_idx]
getOrAddBulkStep(d, str, T) ==
  IF Len(str) = 0 THEN [d |-> d, code |-> inline_int_null_value(T)]
  ELSE IF ~(Len(str) <= MAX_STRLEN) THEN [d |-> d, code |-> Aborted]
  ELSE
    LET hash == rk_hash(str)
        bucket == computeBucket(d, hash, str, d.str_ids, FALSE)
    IN  IF bucket = Diverges THEN [d |-> d, code |-> Diverges]
        ELSE IF d.str_ids[bucket + 1] # INVALID_STR_ID
        THEN [d |-> d, code |-> StoreAs(T, d.str_ids[bucket + 1])]
        ELSE IF d.str_count = max_valid_int_value(T)
        THEN [d |-> d, code |-> inline_int_null_value(T)]
        ELSE IF ~(d.str_count < MAX_STRCOUNT) THEN [d |-> d, code |-> Aborted]
        ELSE IF ~hashWriteInBounds(d) THEN [d |-> d, code |-> OutOfBounds]
        ELSE LET r == installNew(d, hash, str, bucket)
             IN  [d |-> r.d, code |-> StoreAs(T, r.d.str_ids[r.bucket + 1])]

\* the history hist after one iteration of a bulk insert of width T
AddedWith(hist, str, T, code) ==
  IF /\ str # Empty
     /\ str \notin Range(hist)
     /\ Len(hist) # max_valid_int_value(T)
     /\ ~Failed(code)
  THEN Append(hist, str) ELSE hist

AddedAfterBulk(str, T, code) == AddedWith(added, str, T, code)

\* the strings a batch would add to the history
NewIn(string_vec) == (Range(string_vec) \ {Empty}) \ Range(added)

\* the client stops adding strings at MaxStrCount
Fits(string_vec) == Len(added) + Cardinality(NewIn(string_vec)) <= MaxStrCount

\* the thread of the sequential client
Client == 1

\* getOrAddBulk<T> entered under the shared lock
BulkBegin_sharedLock(string_vec, T) ==
  /\ Running
  /\ ~bulk.active
  /\ rw_mutex.writer = 0
  /\ bulk' = [active |-> TRUE, string_vec |-> string_vec, T |-> T,
              out_idx |-> 0, encoded_vec |-> <<>>]
  /\ rw_mutex' = [rw_mutex EXCEPT !.readers = @ \cup {Client}]
  /\ UNCHANGED <<dict, files, ret, added, pc, call, scan>>

\* getOrAddBulk<T>: entry, taking the write lock
BulkBegin(string_vec, T) ==
  /\ Running
  /\ ~bulk.active
  /\ rw_mutex = Unlocked
  /\ bulk' = [active |-> TRUE, string_vec |-> string_vec, T |-> T,
              out_idx |-> 0, encoded_vec |-> <<>>]
  /\ rw_mutex' = [readers |-> {}, writer |-> Client]
  /\ UNCHANGED <<dict, files, ret, added, pc, call, scan>>

\* getOrAddBulk<T>: one iteration of the loop over string_vec
BulkStep ==
  /\ Running
  /\ bulk.active
  /\ bulk.out_idx < Len(bulk.string_vec)
  /\ LET str == bulk.string_vec[bulk.out_idx + 1]
         r == getOrAddBulkStep(dict, str, bulk.T)
     IN  /\ dict' = r.d
         /\ added' = AddedAfterBulk(str, bulk.T, r.code)
         /\ IF Failed(r.code)
            THEN /\ ret' = Outcome("getOrAddBulk", bulk.string_vec, r.code)
                 /\ bulk' = bulk
            ELSE /\ ret' = ret
                 /\ bulk' = [bulk EXCEPT !.out_idx = bulk.out_idx + 1,
                                         !.encoded_vec = Append(bulk.encoded_vec, r.code)]
  /\ UNCHANGED <<files, rw_mutex, pc, call, scan>>

\* getOrAddBulk<T>: after the loop, invalidateInvertedIndex and return
BulkEnd ==
  /\ Running
  /\ bulk.active
  /\ bulk.out_idx = Len(bulk.string_vec)
  /\ dict' = invalidateInvertedIndex(dict)
  /\ ret' = [op |-> "getOrAddBulk", arg |-> bulk.string_vec,
             val |-> bulk.encoded_vec, T |-> bulk.T]
  /\ bulk' = NoBulk
  /\ rw_mutex' = Unlocked
  /\ UNCHANGED <<files, added, pc, call, scan>>

\* the batches the client of the bulk specification passes
Batches ==
  { <<>>, <<StrA, Empty, StrC>>, <<StrA, StrA>>,
    <<StrAB, Empty, StrAB, StrC>>, <<StrB, StrA, StrC, StrAB>> }

\* the strings the client of the bulk specification inserts one by one
SingleInputs == {Empty, StrB}

NextBulk ==
  \/ \E str \in SingleInputs : GetOrAdd(str)
  \/ \E string_vec \in Batches, T \in Widths :
       Fits(string_vec) /\ BulkBegin(string_vec, T)
  \/ BulkStep
  \/ BulkEnd

SpecBulk == Init /\ [][NextBulk]_vars

\* 256 strings of two bytes, pairwise distinct
U8Count == 256
U8String(k) == <<97 + ((k - 1) \div 16), 97 + ((k - 1) % 16)>>

\* the batch of all of them, starting at the string after the first r
U8Rotations == 2
U8Batch(r) == [k \in 1..U8Count |-> U8String(((k - 1 + r) % U8Count) + 1)]

\* a client that encodes one such batch into an empty dictionary
NextU8 ==
  \/ \E r \in 0..(U8Rotations - 1), T \in {"uint8_t", "uint16_t"} :
       ret.op = "open" /\ BulkBegin(U8Batch(r), T)
  \/ BulkStep
  \/ BulkEnd

SpecU8 == Init /\ [][NextU8]_vars

----------------------------------------------------------------------------
(* The sorted cache and the comparison scans *)

\* the workers of a scan: stands for cpu_threads()
CpuThreads == 2

\* string_lt: byte-wise lexicographic order
string_lt(a, b) ==
  \E i \in 1..Len(b) :
    /\ \A j \in 1..(i - 1) : j <= Len(a) /\ a[j] = b[j]
    /\ i > Len(a) \/ a[i] < b[i]

\* string_eq: same length, same bytes
string_eq(a, b) == a = b

\* the comparator of sortCache and mergeSortedCache on ids
IdLt(d, a, b) ==
  string_lt(getStringFromStorage(d, a).str, getStringFromStorage(d, b).str)

\* one id put at its place in a sorted vector
RECURSIVE InsertSorted(_, _, _, _)
InsertSorted(d, sorted, id, at) ==
  IF at > Len(sorted) THEN Append(sorted, id)
  ELSE IF IdLt(d, id, sorted[at])
  THEN SubSeq(sorted, 1, at - 1) \o <<id>> \o SubSeq(sorted, at, Len(sorted))
  ELSE InsertSorted(d, sorted, id, at + 1)

\* sortCache: std::sort of ids by their strings
RECURSIVE sortCacheFrom(_, _, _, _)
sortCacheFrom(d, cache, sorted, i) ==
  IF i > Len(cache) THEN sorted
  ELSE sortCacheFrom(d, cache, InsertSorted(d, sorted, cache[i], 1), i + 1)

sortCache(d, cache) == sortCacheFrom(d, cache, <<>>, 1)

\* mergeSortedCache: the two-pointer walk; t_idx and s_idx count from 0
RECURSIVE mergeFrom(_, _, _, _, _, _)
mergeFrom(d, temp_sorted_cache, sorted_cache, t_idx, s_idx, updated_cache) ==
  IF t_idx < Len(temp_sorted_cache) /\ s_idx < Len(sorted_cache)
  THEN IF IdLt(d, temp_sorted_cache[t_idx + 1], sorted_cache[s_idx + 1])
       THEN mergeFrom(d, temp_sorted_cache, sorted_cache, t_idx + 1, s_idx,
                      Append(updated_cache, temp_sorted_cache[t_idx + 1]))
       ELSE mergeFrom(d, temp_sorted_cache, sorted_cache, t_idx, s_idx + 1,
                      Append(updated_cache, sorted_cache[s_idx + 1]))
  ELSE updated_cache
       \o SubSeq(temp_sorted_cache, t_idx + 1, Len(temp_sorted_cache))
       \o SubSeq(sorted_cache, s_idx + 1, Len(sorted_cache))

\* mergeSortedCache that puts the new ids behind the old ones
mergeSortedCache_appendNew(d, temp_sorted_cache) ==
  [d EXCEPT !.sorted_cache = d.sorted_cache \o temp_sorted_cache]

mergeSortedCache(d, temp_sorted_cache) ==
  [d EXCEPT !.sorted_cache =
              mergeFrom(d, temp_sorted_cache, d.sorted_cache, 0, 0, <<>>)]

buildSortedCache(d) ==
  LET cur_cache_size == Len(d.sorted_cache)
      temp_sorted_cache ==
        [i \in 1..(d.str_count - cur_cache_size) |-> cur_cache_size + i - 1]
  IN  mergeSortedCache(d, sortCache(d, temp_sorted_cache))

\* a cache as a function from the keys it holds
CachePut(cache, key, value) ==
  [k \in (DOMAIN cache) \cup {key} |-> IF k = key THEN value ELSE cache[k]]

\* the ids worker_idx examines in a scan, in its order
RECURSIVE WorkerIds(_, _, _)
WorkerIds(string_id, generation, worker_count) ==
  IF string_id >= generation THEN <<>>
  ELSE <<string_id>> \o WorkerIds(string_id + worker_count, generation, worker_count)

\* the worker of getEquals
EqualsWorker(d, pattern, generation, worker_idx) ==
  LET Matches(string_id) == getStringUnlocked(d, string_id).str = pattern
  IN  SelectSeq(WorkerIds(worker_idx, generation, CpuThreads), Matches)

\* the worker results put one after the other, in worker order
RECURSIVE ConcatWorkers(_, _, _, _)
ConcatWorkers(d, pattern, generation, worker_idx) ==
  IF worker_idx >= CpuThreads THEN <<>>
  ELSE EqualsWorker(d, pattern, generation, worker_idx)
       \o ConcatWorkers(d, pattern, generation, worker_idx + 1)

\* the ids 0..cur_size, cur_size included, without eq_id
AllBut(cur_size, eq_id) ==
  LET Keep(idx) == idx # eq_id
  IN  SelectSeq([i \in 1..(cur_size + 1) |-> i - 1], Keep)

\* getEquals that stores the last id of the scan range for the pattern
getEquals_cachesRangeEnd(d, pattern, comp_operator, generation) ==
  LET cur_size == d.str_count
  IN  IF pattern \in DOMAIN d.equal_cache
      THEN LET eq_id == d.equal_cache[pattern]
           IN  [d |-> d, ok |-> TRUE,
                val |-> IF comp_operator = "=" THEN <<eq_id>>
                        ELSE AllBut(cur_size, eq_id)]
      ELSE IF ~(generation <= d.str_count)
      THEN [d |-> d, ok |-> FALSE, val |-> <<>>]
      ELSE
        LET result == ConcatWorkers(d, pattern, generation, 0)
            eq_id == IF Len(result) > 0 THEN result[1] ELSE MAX_STRLEN + 1
            d1 == IF Len(result) > 0
                  THEN [d EXCEPT !.equal_cache = CachePut(@, pattern, generation - 1)]
                  ELSE d
        IN  [d |-> d1, ok |-> TRUE,
             val |-> IF comp_operator = "<>"
                     THEN result \o AllBut(cur_size, eq_id)
                     ELSE result]

\* getEquals: the object afterwards and the result; ok is FALSE when a CHECK fails
getEquals(d, pattern, comp_operator, generation) ==
  LET cur_size == d.str_count
  IN  IF pattern \in DOMAIN d.equal_cache
      THEN LET eq_id == d.equal_cache[pattern]
           IN  [d |-> d, ok |-> TRUE,
                val |-> IF comp_operator = "=" THEN <<eq_id>>
                        ELSE AllBut(cur_size, eq_id)]
      ELSE IF ~(generation <= d.str_count)
      THEN [d |-> d, ok |-> FALSE, val |-> <<>>]
      ELSE
        LET result == ConcatWorkers(d, pattern, generation, 0)
            eq_id == IF Len(result) > 0 THEN result[1] ELSE MAX_STRLEN + 1
            d1 == IF Len(result) > 0
                  THEN [d EXCEPT !.equal_cache = CachePut(@, pattern, result[1])]
                  ELSE d
        IN  [d |-> d1, ok |-> TRUE,
             val |-> IF comp_operator = "<>"
                     THEN result \o AllBut(cur_size, eq_id)
                     ELSE result]

\* std::lower_bound over sorted_cache with the comparator of getCompare: the
\* position, from 0, at which the search ends
RECURSIVE lower_bound(_, _, _, _)
lower_bound(d, pattern, first, count) ==
  IF count <= 0 THEN first
  ELSE LET step == count \div 2
           it == first + step
       IN  IF string_lt(getStringFromStorage(d, d.sorted_cache[it + 1]).str, pattern)
           THEN lower_bound(d, pattern, it + 1, count - (step + 1))
           ELSE lower_bound(d, pattern, first, step)

\* the {index, diff} pair getCompare computes on a miss of compare_cache
compareCacheValue(d, pattern) ==
  LET cache_itr == lower_bound(d, pattern, 0, Len(d.sorted_cache))
  IN  IF cache_itr = Len(d.sorted_cache)
      THEN [index |-> Len(d.sorted_cache) - 1, diff |-> 1]
      ELSE IF ~string_eq(getStringFromStorage(d, d.sorted_cache[cache_itr + 1]).str,
                         pattern)
      THEN [index |-> cache_itr - 1, diff |-> 1]
      ELSE [index |-> cache_itr, diff |-> 0]

\* sorted_cache[from], ..., sorted_cache[to - 1], positions counted from 0
CacheSlice(d, from, to) == SubSeq(d.sorted_cache, from + 1, to)

\* the vector repeated n times
RECURSIVE Repeat(_, _)
Repeat(seq, n) == IF n <= 0 THEN <<>> ELSE seq \o Repeat(seq, n - 1)

\* the branches of getCompare with ">" starting at the cached index itself
compareResult_aboveFromIndex(d, comp_operator, cache_index) ==
  LET size == Len(d.sorted_cache)
      index == cache_index.index
      diff == cache_index.diff
      strict == IF diff # 0
                THEN (IF index = 0 /\ diff > 0 THEN index ELSE index + 1)
                ELSE index
  IN  IF comp_operator = "<" THEN CacheSlice(d, 0, strict)
      ELSE IF comp_operator = "<=" THEN CacheSlice(d, 0, index + 1)
      ELSE IF comp_operator = ">" THEN CacheSlice(d, Max(index, 0), size)
      ELSE IF comp_operator = ">=" THEN CacheSlice(d, strict, size)
      ELSE IF comp_operator = "="
      THEN (IF diff = 0 THEN <<d.sorted_cache[index + 1]>> ELSE <<>>)
      ELSE IF comp_operator = "<>"
      THEN (IF diff = 0
            THEN CacheSlice(d, 0, index) \o CacheSlice(d, index + 1, size)
            ELSE Repeat(d.sorted_cache, size))
      ELSE <<>>

\* the branch of getCompare on comp_operator, for the pair cache_index
compareResult(d, comp_operator, cache_index) ==
  LET size == Len(d.sorted_cache)
      index == cache_index.index
      diff == cache_index.diff
      \* idx of "<" and ">="
      strict == IF diff # 0
                THEN (IF index = 0 /\ diff > 0 THEN index ELSE index + 1)
                ELSE index
      \* idx of ">": index + 1, or index when index is 0 and diff > 0
      above == IF index = 0 /\ diff > 0 THEN index ELSE index + 1
  IN  IF comp_operator = "<" THEN CacheSlice(d, 0, strict)
      ELSE IF comp_operator = "<=" THEN CacheSlice(d, 0, index + 1)
      ELSE IF comp_operator = ">" THEN CacheSlice(d, above, size)
      ELSE IF comp_operator = ">=" THEN CacheSlice(d, strict, size)
      ELSE IF comp_operator = "="
      THEN (IF diff = 0 THEN <<d.sorted_cache[index + 1]>> ELSE <<>>)
      ELSE IF comp_operator = "<>"
      THEN (IF diff = 0
            THEN CacheSlice(d, 0, index) \o CacheSlice(d, index + 1, size)
            ELSE Repeat(d.sorted_cache, size))
      ELSE <<>>

\* getCompare: the object afterwards and the result; ok as in getEquals
getCompare(d, pattern, comp_operator, generation) ==
  IF d.str_count = 0 THEN [d |-> d, ok |-> TRUE, val |-> <<>>]
  ELSE IF Len(d.sorted_cache) < d.str_count
          /\ (comp_operator = "=" \/ comp_operator = "<>")
  THEN getEquals(d, pattern, comp_operator, generation)
  ELSE
    LET d1 == IF Len(d.sorted_cache) < d.str_count THEN buildSortedCache(d) ELSE d
        hit == pattern \in DOMAIN d1.compare_cache
        cache_index == IF hit THEN d1.compare_cache[pattern]
                       ELSE compareCacheValue(d1, pattern)
        d2 == IF hit THEN d1
              ELSE [d1 EXCEPT !.compare_cache = CachePut(@, pattern, cache_index)]
    IN  [d |-> d2, ok |-> TRUE,
         val |-> compareResult(d2, comp_operator, cache_index)]

CompOperators == {"<", "<=", ">", ">=", "=", "<>"}

GetCompare(pattern, comp_operator, generation) ==
  /\ Running
  /\ ~bulk.active
  /\ LET r == getCompare(dict, pattern, comp_operator, generation)
     IN  /\ dict' = r.d
         /\ ret' = IF ~r.ok
                   THEN Outcome("getCompare", pattern, Aborted)
                   ELSE [op |-> "getCompare", arg |-> pattern,
                         comp_operator |-> comp_operator,
                         generation |-> generation, val |-> r.val]
  /\ UNCHANGED <<files, added, rw_mutex, pc, call, bulk, scan>>

\* the strings and the patterns of the scan specification
ScanStrings == {StrAB, StrAC, StrB, StrBB}
Patterns == {StrA, StrAC, StrC}

InitScan ==
  /\ dict = OpenEmpty(TRUE, FALSE, 4)
  /\ files = NoFiles
  /\ ret = [op |-> "open", arg |-> Empty, val |-> 0]
  /\ added = <<>>
  /\ rw_mutex = Unlocked
  /\ pc = NoThreads
  /\ call = NoThreads
  /\ bulk = NoBulk
  /\ scan = NoScan

NextScan ==
  \/ \E str \in ScanStrings : GetOrAdd(str)
  \/ \E pattern \in Patterns, comp_operator \in CompOperators :
       GetCompare(pattern, comp_operator, dict.str_count)

SpecScan == InitScan /\ [][NextScan]_vars

\* a client that mixes single inserts, bulk inserts and scans
MixedInputs == {Empty, StrB, StrAC}
MixedBatches == { <<StrAB, Empty, StrB>>, <<Empty>> }
MixedWidths == {"uint8_t", "int32_t"}

NextMixed ==
  \/ \E str \in MixedInputs : GetOrAdd(str)
  \/ \E string_vec \in MixedBatches, T \in MixedWidths :
       Fits(string_vec) /\ BulkBegin(string_vec, T)
  \/ BulkStep
  \/ BulkEnd
  \/ \E comp_operator \in {"<", "="} : GetCompare(StrB, comp_operator, dict.str_count)

SpecMixed == InitScan /\ [][NextMixed]_vars

----------------------------------------------------------------------------
(* Ordered comparison against the reference filter *)

\* the reference order on strings: first differing byte, shorter prefix first
RefLess(a, b) ==
  \/ /\ Len(a) < Len(b)
     /\ SubSeq(b, 1, Len(a)) = a
  \/ \E i \in 1..Min(Len(a), Len(b)) :
       /\ SubSeq(a, 1, i - 1) = SubSeq(b, 1, i - 1)
       /\ a[i] < b[i]

RefHolds(str, comp_operator, pattern) ==
  IF comp_operator = "<" THEN RefLess(str, pattern)
  ELSE IF comp_operator = "<=" THEN RefLess(str, pattern) \/ str = pattern
  ELSE IF comp_operator = ">" THEN RefLess(pattern, str)
  ELSE IF comp_operator = ">=" THEN RefLess(pattern, str) \/ str = pattern
  ELSE IF comp_operator = "=" THEN str = pattern
  ELSE str # pattern

\* the ids a filter over the strings added so far selects
RefFilter(comp_operator, pattern) ==
  {i - 1 : i \in {j \in 1..Len(added) : RefHolds(added[j], comp_operator, pattern)}}

OrderedOperators == {"<", "<=", ">", ">="}

\* C10: for every content, pattern and operator among <, <=, >, >=, a call of
\* getCompare with the current str_count as generation returns exactly the
\* ids whose string stands in that relation to the pattern, each id once.
C10_CompareMatchesReference ==
  (ret.op = "getCompare" /\ ret.comp_operator \in OrderedOperators
     /\ ret.generation = dict.str_count)
    => /\ Range(ret.val) = RefFilter(ret.comp_operator, ret.arg)
       /\ Len(ret.val) = Cardinality(Range(ret.val))

----------------------------------------------------------------------------
(* Single inserts and lookups against the history of additions *)

\* the calls of the client that add a string or look one up
Returned(op) == ret.op = op /\ ret.arg # Empty

\* C1: pairwise distinct non-empty strings inserted one by one with getOrAdd
\* into a fresh dictionary get the ids 0, 1, 2, ... in insertion order, and
\* getString(i) gives back exactly the i-th inserted string, whatever
\* collisions and resizes happened on the way.
C1_RoundTrip ==
  /\ dict.str_count = Len(added)
  /\ \A i \in 1..Len(added) :
       getStringUnlocked(dict, i - 1) = [ok |-> TRUE, str |-> added[i]]
  /\ Returned("getOrAdd") => ret.val = IdOf(added, ret.arg)
  /\ ret.op = "getString" => ret.arg = added[ret.val + 1]

\* four strings are in, the index has been resized, a string sits away from
\* its home bucket, and getString has just read the last one back
C1_Witness ==
  /\ ret.op = "getString"
  /\ ret.val = 3
  /\ dict.str_count = 4
  /\ Len(dict.str_ids) = 8
  /\ \E b \in 1..Len(dict.str_ids) :
       /\ dict.str_ids[b] # INVALID_STR_ID
       /\ HomeBucket(rk_hash(added[dict.str_ids[b] + 1]), Len(dict.str_ids)) # b - 1

\* the index, the stored records and the payload offset
IndexAndStorage ==
  <<dict.str_count, dict.str_ids, dict.rk_hashes, dict.offset_map,
    dict.payload_map, dict.payload_file_off, dict.offset_file_size,
    dict.payload_file_size>>

\* C2: getOrAdd of a string that is already in returns the id the string was
\* given when it was added and leaves str_count, the index, the storage and
\* the payload offset as they were.
C2_Idempotent ==
  [][(ret'.op = "getOrAdd" /\ ret'.arg \in Range(added))
       => /\ ret'.val = IdOf(added, ret'.arg)
          /\ IndexAndStorage' = IndexAndStorage
          /\ added' = added]_vars

\* the first string has been inserted again after three more strings and a
\* resize of the index
C2_Witness ==
  /\ ret.op = "getOrAdd"
  /\ ret.arg # Empty
  /\ ret.val = 0
  /\ dict.str_count = 4
  /\ Len(dict.str_ids) = 8

\* C5: after any inserts, getIdOfString(s) returns the id given to s when s
\* is in the dictionary and INVALID_STR_ID when it is not, never the id of
\* another string that shares its bucket.
C5_LookupCorrect ==
  ret.op = "getIdOfString"
    => IF ret.arg \in Range(added)
       THEN ret.val = IdOf(added, ret.arg)
       ELSE ret.val = INVALID_STR_ID

\* a lookup of a string that is not in, whose home bucket holds another string
C5_WitnessAbsent ==
  /\ ret.op = "getIdOfString"
  /\ ret.arg \notin Range(added)
  /\ ret.arg # Empty
  /\ ret.val = INVALID_STR_ID
  /\ dict.str_ids[HomeBucket(rk_hash(ret.arg), Len(dict.str_ids)) + 1]
       # INVALID_STR_ID

----------------------------------------------------------------------------
(* Empty input, the fill rate and the codes of a bulk insert *)

\* no id stands for the empty string
NoEmptyStored ==
  \A string_id \in 0..(dict.str_count - 1) :
    getStringUnlocked(dict, string_id).str # Empty

\* the element a bulk insert is about to encode
BulkElement == bulk.string_vec[bulk.out_idx + 1]

\* C6: getOrAdd of the empty string returns the 32-bit null value and leaves
\* str_count, the index, the storage and the scan caches as they were; an
\* empty element of a bulk insert gets the null value of the width and
\* changes nothing either; so no id ever stands for the empty string.
C6_EmptyNeverStored ==
  /\ []NoEmptyStored
  /\ [][GetOrAdd(Empty) => (ret'.val = NullValueInt32 /\ dict' = dict)]_vars
  /\ [][(BulkStep /\ BulkElement = Empty)
          => /\ dict' = dict
             /\ bulk'.encoded_vec =
                  Append(bulk.encoded_vec, inline_int_null_value(bulk.T))]_vars

\* getOrAdd of the empty string has just returned with two strings in and
\* scan caches that hold entries
C6_Witness ==
  /\ ret.op = "getOrAdd"
  /\ ret.arg = Empty
  /\ ret.val = NullValueInt32
  /\ ~bulk.active
  /\ dict.str_count >= 2
  /\ Len(dict.sorted_cache) = dict.str_count
  /\ DOMAIN dict.compare_cache # {}

\* C7: after every insert that adds a string, single or bulk, the index
\* length is at least 2 * str_count: the index is never more than half full.
C7_FillRateBound == Len(dict.str_ids) >= 2 * dict.str_count

\* the code of width T for the element str of a batch, by the history
RefCode(str, T) ==
  IF str = Empty THEN inline_int_null_value(T) ELSE IdOf(added, str)

\* C9: a bulk insert writes one code per input string, in input order: the
\* null value of T for an empty string, which is not counted, the id it has
\* for a string that is already in (also when added earlier in the batch),
\* and the next id for a new string.
C9_BulkElementWise ==
  /\ dict.str_count = Len(added)
  /\ bulk.active
       => /\ Len(bulk.encoded_vec) = bulk.out_idx
          /\ \A i \in 1..bulk.out_idx :
               bulk.encoded_vec[i] = RefCode(bulk.string_vec[i], bulk.T)
  /\ ret.op = "getOrAddBulk"
       => /\ Len(ret.val) = Len(ret.arg)
          /\ \A i \in 1..Len(ret.arg) : ret.val[i] = RefCode(ret.arg[i], ret.T)

\* a string, the empty string and another string encoded as uint8_t into an
\* empty dictionary
C9_Witness ==
  /\ ret.op = "getOrAddBulk"
  /\ ret.T = "uint8_t"
  /\ ret.arg = <<StrA, Empty, StrC>>
  /\ ret.val = <<0, inline_int_null_value("uint8_t"), 1>>
  /\ dict.str_count = 2

\* the positions of a vector of codes that hold the null value of T
NullCodes(encoded_vec, T) ==
  {i \in 1..Len(encoded_vec) : encoded_vec[i] = inline_int_null_value(T)}

\* C8: a bulk insert of width uint8_t of 256 pairwise distinct non-empty
\* strings into an empty dictionary writes 255 codes that are not null and
\* exactly one null value, adds exactly 255 strings, and does not add the
\* string that overflows.
C8_U8Overflow ==
  (ret.op = "getOrAddBulk" /\ ret.T = "uint8_t" /\ Len(ret.arg) = U8Count)
    => /\ Cardinality(NullCodes(ret.val, ret.T)) = 1
       /\ Len(ret.val) - Cardinality(NullCodes(ret.val, ret.T)) = 255
       /\ dict.str_count = 255
       /\ getUnlocked(dict, ret.arg[U8Count]) = INVALID_STR_ID

----------------------------------------------------------------------------
(* Concurrent getOrAdd: threads, each step of getOrAddImpl under rw_mutex *)

NumThreads == 2
Threads == 1..NumThreads

ConcStrings == {StrA, StrB, StrC}

\* what a thread is calling with, and what its last call returned
Idle == [str |-> Empty, val |-> 0, returned |-> FALSE, path |-> "none"]

InitConc ==
  /\ \E initial_capacity \in InitialCapacities, materializeHashes \in BOOLEAN :
       dict = OpenEmpty(TRUE, materializeHashes, initial_capacity)
  /\ files = NoFiles
  /\ ret = [op |-> "open", arg |-> Empty, val |-> 0]
  /\ added = <<>>
  /\ rw_mutex = Unlocked
  /\ pc = [t \in Threads |-> "idle"]
  /\ call = [t \in Threads |-> Idle]
  /\ bulk = NoBulk
  /\ scan = NoScan

\* getOrAddImpl up to the read lock: the empty string returns at once
ThreadCall(t, str) ==
  /\ pc[t] = "idle"
  /\ IF Len(str) = 0
     THEN /\ call' = [call EXCEPT ![t] = [str |-> str, val |-> NullValueInt32,
                                          returned |-> TRUE, path |-> "empty"]]
          /\ pc' = pc
     ELSE /\ call' = [call EXCEPT ![t] = [str |-> str, val |-> 0,
                                          returned |-> FALSE, path |-> "none"]]
          /\ pc' = [pc EXCEPT ![t] = "read_lock"]
  /\ UNCHANGED <<dict, files, ret, added, rw_mutex, bulk, scan>>

\* a shared lock that is granted whoever holds the mutex
lock_shared_unguarded(m) == TRUE

\* a shared lock is granted while no thread holds the mutex exclusively
lock_shared(m) == m.writer = 0

\* mapd_shared_lock read_lock(rw_mutex_)
ReadLock(t) ==
  /\ pc[t] = "read_lock"
  /\ lock_shared(rw_mutex)
  /\ rw_mutex' = [rw_mutex EXCEPT !.readers = @ \cup {t}]
  /\ pc' = [pc EXCEPT ![t] = "probe"]
  /\ UNCHANGED <<dict, files, ret, added, call, bulk, scan>>

\* the probe under the read lock, to the end of the block that holds it
ReadProbe(t) ==
  /\ pc[t] = "probe"
  /\ LET bucket == getOrAddImplProbe(dict, call[t].str)
     IN  IF bucket = Diverges
         THEN /\ pc' = [pc EXCEPT ![t] = "hung"]
              /\ UNCHANGED <<call, rw_mutex, scan>>
         ELSE /\ rw_mutex' = [rw_mutex EXCEPT !.readers = @ \ {t}]
              /\ IF dict.str_ids[bucket + 1] # INVALID_STR_ID
                 THEN /\ call' = [call EXCEPT ![t].val = dict.str_ids[bucket + 1],
                                              ![t].returned = TRUE,
                                              ![t].path = "read"]
                      /\ pc' = [pc EXCEPT ![t] = "idle"]
                 ELSE /\ call' = call
                      /\ pc' = [pc EXCEPT ![t] = "write_lock"]
  /\ UNCHANGED <<dict, files, ret, added, bulk, scan>>

\* mapd_lock_guard write_lock(rw_mutex_)
WriteLock(t) ==
  /\ pc[t] = "write_lock"
  /\ rw_mutex = Unlocked
  /\ rw_mutex' = [rw_mutex EXCEPT !.writer = t]
  /\ pc' = [pc EXCEPT ![t] = "insert"]
  /\ UNCHANGED <<dict, files, ret, added, call, bulk, scan>>

\* the section under the write lock, to the return that releases it
WriteSection(t) ==
  /\ pc[t] = "insert"
  /\ LET str == call[t].str
         r == getOrAddImplInsert(dict, str)
     IN  IF Failed(r.val)
         THEN /\ pc' = [pc EXCEPT ![t] = "hung"]
              /\ UNCHANGED <<dict, added, call, rw_mutex, scan>>
         ELSE /\ dict' = r.d
              /\ added' = IF str \in Range(added) THEN added ELSE Append(added, str)
              /\ call' = [call EXCEPT ![t].val = r.val,
                                      ![t].returned = TRUE,
                                      ![t].path = IF str \in Range(added)
                                                  THEN "write_found"
                                                  ELSE "write_new"]
              /\ rw_mutex' = Unlocked
              /\ pc' = [pc EXCEPT ![t] = "idle"]
  /\ UNCHANGED <<files, ret, bulk, scan>>

NextConc ==
  \E t \in Threads :
    \/ \E str \in ConcStrings \cup {Empty} : ThreadCall(t, str)
    \/ ReadLock(t)
    \/ ReadProbe(t)
    \/ WriteLock(t)
    \/ WriteSection(t)

SpecConc == InitConc /\ [][NextConc]_vars

\* C4: under every interleaving of getOrAdd calls of several threads, calls
\* with equal strings return the same id and calls with different strings
\* different ids, str_count is the number of distinct strings added, and the
\* ids are 0 .. str_count - 1 in the order in which the write-locked sections
\* ran.
C4_SerializedInserts ==
  /\ dict.str_count = Len(added)
  /\ \A i \in 1..Len(added) :
       getStringUnlocked(dict, i - 1) = [ok |-> TRUE, str |-> added[i]]
  /\ \A t \in Threads :
       (call[t].returned /\ call[t].str # Empty)
         => call[t].val = IdOf(added, call[t].str)
  /\ \A t1, t2 \in Threads :
       (call[t1].returned /\ call[t2].returned
          /\ call[t1].str # Empty /\ call[t2].str # Empty)
         => (call[t1].str = call[t2].str <=> call[t1].val = call[t2].val)

\* two threads missed the same string under the read lock; one added it, the
\* other found it when it looked again under the write lock
C4_Witness ==
  \E t1, t2 \in Threads :
    /\ call[t1].str = call[t2].str
    /\ call[t1].returned /\ call[t1].path = "write_new"
    /\ call[t2].returned /\ call[t2].path = "write_found"
    /\ call[t1].val = call[t2].val
    /\ dict.str_count >= 2

----------------------------------------------------------------------------
(* The persistent dictionary: files, checkpoint, close, open with recover *)

\* round_up_p2 on 1 <= num < 2^30, where neither the wrap to zero nor the
\* saturation at UINT32_MAX arises
round_up_p2(num) ==
  LET in0 == num - 1
      in1 == BitOr(in0, in0 \div 2)
      in2 == BitOr(in1, in1 \div 4)
      in3 == BitOr(in2, in2 \div 16)
      in4 == BitOr(in3, in3 \div 256)
      in5 == BitOr(in4, in4 \div 65536)
  IN  in5 + 1

\* std::thread::hardware_concurrency()
HardwareConcurrency == 2

\* items_per_thread of the recover branch
items_per_thread(str_count) ==
  Max(2000, Min(200000, (str_count \div HardwareConcurrency) + 1))

\* the worker of the recover branch without the stop at the canary
RECURSIVE recoverWorker_noCanaryStop(_, _, _)
recoverWorker_noCanaryStop(d, curr_id, end_id) ==
  IF ~(curr_id < end_id) THEN <<>>
  ELSE LET recovered == getStringFromStorage(d, curr_id)
           temp == IF recovered.canary
                   THEN [i \in 1..(CanarySize % 4) |-> CanaryByte]
                   ELSE recovered.str
       IN  <<[hash |-> rk_hash(temp), size |-> Len(temp)]>>
           \o recoverWorker_noCanaryStop(d, curr_id + 1, end_id)

\* the worker of the recover branch: the (hash, size) pairs of the records
\* from curr_id up to end_id, or up to the first canary
RECURSIVE recoverWorker(_, _, _)
recoverWorker(d, curr_id, end_id) ==
  IF ~(curr_id < end_id) THEN <<>>
  ELSE LET recovered == getStringFromStorage(d, curr_id)
       IN  IF recovered.canary THEN <<>>
           ELSE <<[hash |-> rk_hash(recovered.str), size |-> Len(recovered.str)]>>
                \o recoverWorker(d, curr_id + 1, end_id)

\* processDictionaryFutures that installs the ids and leaves rk_hashes
RECURSIVE processDictionaryFutures_noHashes(_, _, _)
processDictionaryFutures_noHashes(d, hashVec, i) ==
  IF i > Len(hashVec) THEN d
  ELSE LET hash == hashVec[i]
           bucket == computeUniqueBucketWithHash(hash.hash, d.str_ids)
           d1 == [d EXCEPT !.payload_file_off = @ + hash.size,
                           !.str_ids[bucket + 1] = d.str_count]
           d3 == [d1 EXCEPT !.str_count = @ + 1]
       IN  IF d3.str_count = 0 THEN d3
           ELSE processDictionaryFutures_noHashes(d3, hashVec, i + 1)

\* processDictionaryFutures on the pairs of one worker, from the i-th on
RECURSIVE processDictionaryFutures(_, _, _)
processDictionaryFutures(d, hashVec, i) ==
  IF i > Len(hashVec) THEN d
  ELSE LET hash == hashVec[i]
           bucket == computeUniqueBucketWithHash(hash.hash, d.str_ids)
           d1 == [d EXCEPT !.payload_file_off = @ + hash.size,
                           !.str_ids[bucket + 1] = d.str_count]
           d2 == IF d1.materialize_hashes
                 THEN [d1 EXCEPT !.rk_hashes[d1.str_count + 1] = hash.hash]
                 ELSE d1
           d3 == [d2 EXCEPT !.str_count = @ + 1]
       IN  IF d3.str_count = 0 THEN d3
           ELSE processDictionaryFutures(d3, hashVec, i + 1)

\* the loop of the recover branch over the chunks: the workers read the
\* mappings only, and their results are installed in the order of submission
RECURSIVE recoverChunks(_, _, _)
recoverChunks(d, string_id, str_count) ==
  IF ~(string_id < str_count) THEN d
  ELSE LET end_id == Min(string_id + items_per_thread(str_count), str_count)
           hashVec == recoverWorker(d, string_id, end_id)
           d1 == processDictionaryFutures(d, hashVec, 1)
       IN  recoverChunks(d1, string_id + items_per_thread(str_count), str_count)

\* the recover branch up to the loop: str_ids_ and rk_hashes_ sized for the
\* records of the offsets file
recoverTables(d) ==
  LET bytes == d.offset_file_size
      str_count == EntriesIn(bytes)
      max_entries == round_up_p2(str_count * 2 + 1)
  IN  [d EXCEPT
         !.str_ids = [i \in 1..max_entries |-> INVALID_STR_ID],
         !.rk_hashes = IF d.materialize_hashes
                       THEN [i \in 1..(max_entries \div 2) |-> <<0, 0>>]
                       ELSE @]

\* the recover branch of the constructor
recoverBranch(d) ==
  recoverChunks(recoverTables(d), 0, EntriesIn(d.offset_file_size))

\* the constructor with a folder up to the recover branch: the files f are
\* truncated unless recover
mapFolder(f, recover, materializeHashes, initial_capacity) ==
  LET keep == recover /\ f.exists
      d0 == InitialFields(FALSE, materializeHashes, initial_capacity)
      d1 == IF keep
            THEN [d0 EXCEPT !.payload_file_size = f.payload_file_size,
                            !.offset_file_size = f.offset_file_size,
                            !.payload_map = f.payload,
                            !.offset_map = f.offsets]
            ELSE d0
      d2 == IF d1.payload_file_size = 0 THEN addPayloadCapacity(d1) ELSE d1
  IN  IF d2.offset_file_size = 0 THEN addOffsetCapacity(d2) ELSE d2

\* the constructor with a folder
OpenFolder(f, recover, materializeHashes, initial_capacity) ==
  LET d3 == mapFolder(f, recover, materializeHashes, initial_capacity)
  IN  IF recover THEN recoverBranch(d3) ELSE d3

\* the files of a folder with an object open on them
OpenedFiles(recover) ==
  [exists |-> TRUE, open |-> TRUE, recovered |-> recover,
   payload |-> <<>>, offsets |-> <<>>,
   payload_file_size |-> 0, offset_file_size |-> 0]

InitRecover ==
  /\ \E materializeHashes \in BOOLEAN :
       dict = OpenFolder(NoFiles, FALSE, materializeHashes, 4)
  /\ files = OpenedFiles(FALSE)
  /\ ret = [op |-> "open", arg |-> Empty, val |-> 0]
  /\ added = <<>>
  /\ rw_mutex = Unlocked
  /\ pc = NoThreads
  /\ call = NoThreads
  /\ bulk = NoBulk
  /\ scan = NoScan

\* checkpoint with the four results of msync(offset_map_), msync(payload_map_),
\* fsync(offset_fd_), fsync(payload_fd_), without the two fsync
checkpoint_msyncOnly(d, synced) ==
  [ok |-> ~d.isTemp,
   val |-> synced[1] /\ synced[2],
   calls |-> IF ~synced[1] THEN 1 ELSE 2]

\* checkpoint of a local dictionary: CHECK(!isTemp_), then ret = ret && (...)
\* four times; a call after a failure is not made; calls counts those made
checkpoint(d, synced) ==
  [ok |-> ~d.isTemp,
   val |-> synced[1] /\ synced[2] /\ synced[3] /\ synced[4],
   calls |-> IF ~synced[1] THEN 1
             ELSE IF ~synced[2] THEN 2
             ELSE IF ~synced[3] THEN 3
             ELSE 4]

\* checkpoint of an object with a client_: the forwarded call returns true or
\* false or throws, and catch (...) makes the last false
checkpointRemote(remote) == IF remote = "throws" THEN FALSE ELSE remote = "true"

RemoteOutcomes == {"true", "false", "throws"}

Checkpoint(synced) ==
  /\ Running
  /\ ~bulk.active
  /\ LET r == checkpoint(dict, synced)
     IN  ret' = IF ~r.ok
                THEN Outcome("checkpoint", Empty, Aborted)
                ELSE [op |-> "checkpoint", arg |-> Empty, client |-> FALSE,
                      synced |-> synced, calls |-> r.calls, val |-> r.val]
  /\ UNCHANGED <<dict, files, added, rw_mutex, pc, call, bulk, scan>>

\* checkpoint of a second object of the client, one in remote mode, which
\* shares nothing with the local dictionary
CheckpointRemote(remote) ==
  /\ Running
  /\ ~bulk.active
  /\ ret' = [op |-> "checkpoint", arg |-> Empty, client |-> TRUE,
             remote |-> remote, val |-> checkpointRemote(remote)]
  /\ UNCHANGED <<dict, files, added, rw_mutex, pc, call, bulk, scan>>

\* the destructor: the mappings and the descriptors are released, the files
\* hold what the mappings held; dict is not read again before the next open
Close ==
  /\ Running
  /\ ~bulk.active
  /\ files.open
  /\ files' = [exists |-> TRUE, open |-> FALSE, recovered |-> FALSE,
               payload |-> dict.payload_map, offsets |-> dict.offset_map,
               payload_file_size |-> dict.payload_file_size,
               offset_file_size |-> dict.offset_file_size]
  /\ ret' = [op |-> "close", arg |-> Empty, val |-> dict.str_count]
  /\ UNCHANGED <<dict, added, rw_mutex, pc, call, bulk, scan>>

\* the constructor on the folder of the closed dictionary
Reopen(recover, materializeHashes, initial_capacity) ==
  /\ ~files.open
  /\ dict' = OpenFolder(files, recover, materializeHashes, initial_capacity)
  /\ files' = OpenedFiles(recover)
  /\ added' = IF recover THEN added ELSE <<>>
  /\ ret' = [op |-> "open", arg |-> Empty, val |-> 0]
  /\ UNCHANGED <<rw_mutex, pc, call, bulk, scan>>

RecoverBatches == { <<StrA, StrB, StrC>>, <<StrAB, Empty, StrA>> }

NextRecover ==
  \/ \E str \in {StrB, StrAC} : files.open /\ GetOrAdd(str)
  \/ \E string_vec \in RecoverBatches :
       files.open /\ Fits(string_vec) /\ BulkBegin(string_vec, "int32_t")
  \/ BulkStep
  \/ BulkEnd
  \/ \E str \in {StrA, StrB, StrBB} : files.open /\ GetIdOfString(str)
  \/ \E string_id \in 0..(dict.str_count - 1) : files.open /\ GetString(string_id)
  \/ \E synced \in [1..4 -> BOOLEAN] : files.open /\ Checkpoint(synced)
  \/ \E remote \in RemoteOutcomes : files.open /\ CheckpointRemote(remote)
  \/ Close
  \/ \E recover \in BOOLEAN, materializeHashes \in BOOLEAN :
       Reopen(recover, materializeHashes, 4)

SpecRecover == InitRecover /\ [][NextRecover]_vars

\* C3: after insert, checkpoint, close and open with recover on the same
\* folder, storageEntryCount() is the str_count of the writing session, and
\* getString(i) and getIdOfString(s) give the mapping between ids and
\* strings that the writing session installed, for every id below str_count.
C3_RecoveryFidelity ==
  (files.open /\ files.recovered)
    => /\ storageEntryCount(dict) = Len(added)
       /\ \A i \in 1..Len(added) :
            /\ getStringUnlocked(dict, i - 1) = [ok |-> TRUE, str |-> added[i]]
            /\ getUnlocked(dict, added[i]) = i - 1
       /\ ret.op = "getString" => ret.arg = added[ret.val + 1]

\* three strings written, the folder opened again with recover, and
\* getString(1) has read the second one back
C3_Witness ==
  /\ files.open
  /\ files.recovered
  /\ added = <<StrA, StrB, StrC>>
  /\ storageEntryCount(dict) = 3
  /\ ret.op = "getString"
  /\ ret.val = 1
  /\ ret.arg = StrB

----------------------------------------------------------------------------
(* The three-way split of the ids by a pattern *)

\* the orders in which a client asks for "<", "=" and ">"
Orders ==
  { <<"<", "=", ">">>, <<"<", ">", "=">>, <<"=", "<", ">">>,
    <<"=", ">", "<">>, <<">", "<", "=">>, <<">", "=", "<">> }

\* three calls of getCompare with the same pattern, one after the other from
\* the object d, with generation str_count: the result of each operator
ThreeCalls(d, pattern, order) ==
  LET r1 == getCompare(d, pattern, order[1], d.str_count)
      r2 == getCompare(r1.d, pattern, order[2], d.str_count)
      r3 == getCompare(r2.d, pattern, order[3], d.str_count)
      val == <<r1.val, r2.val, r3.val>>
  IN  [comp_operator \in {"<", "=", ">"} |->
         val[CHOOSE i \in 1..3 : order[i] = comp_operator]]

\* C11: for every pattern, the results of getCompare with "<", "=" and ">"
\* and generation str_count are pairwise disjoint and together are the ids
\* 0 .. str_count - 1, in whatever order the three calls are made.
C11_ScanExclusivity ==
  \A pattern \in Patterns, order \in Orders :
    LET res == ThreeCalls(dict, pattern, order)
        lt == Range(res["<"])
        eq == Range(res["="])
        gt == Range(res[">"])
    IN  /\ lt \cap eq = {}
        /\ lt \cap gt = {}
        /\ eq \cap gt = {}
        /\ lt \cup eq \cup gt = 0..(dict.str_count - 1)

\* ">" has just been answered from the sorted cache for a stored pattern
\* whose "=" was answered by the equality scan before the cache was built
C11_Witness ==
  /\ ret.op = "getCompare"
  /\ ret.comp_operator = ">"
  /\ ret.arg \in Range(added)
  /\ ret.arg \in DOMAIN dict.equal_cache
  /\ ret.arg \in DOMAIN dict.compare_cache
  /\ dict.str_count >= 3
  /\ Len(ret.val) >= 1

----------------------------------------------------------------------------
(* Not-equal *)

\* C12: getCompare with "<>" and generation str_count returns exactly the
\* ids below str_count whose string differs from the pattern, each once, and
\* never the id of the string equal to the pattern, whether the answer comes
\* from the equality scan, from equal_cache or from the sorted cache.
C12_NotEqualExact ==
  (ret.op = "getCompare" /\ ret.comp_operator = "<>"
     /\ ret.generation = dict.str_count)
    => /\ Range(ret.val) = RefFilter("<>", ret.arg)
       /\ Len(ret.val) = Cardinality(Range(ret.val))

----------------------------------------------------------------------------
(* The LIKE and regular expression scans *)

Percent == 37
Underscore == 95
Dot == 46
Star == 42
Backslash == 92

\* a byte with an upper-case ASCII letter folded to lower case
ToLower(byte) == IF byte >= 65 /\ byte <= 90 THEN byte + 32 ELSE byte

\* string_like on str from position i and pattern from position j: "%" stands
\* for any run of bytes, "_" for one byte, the byte after escape for itself
RECURSIVE LikeFrom(_, _, _, _, _, _)
LikeFrom(str, i, pattern, j, icase, escape) ==
  IF j > Len(pattern) THEN i > Len(str)
  ELSE IF pattern[j] = escape /\ j < Len(pattern)
  THEN /\ i <= Len(str)
       /\ str[i] = pattern[j + 1]
       /\ LikeFrom(str, i + 1, pattern, j + 2, icase, escape)
  ELSE IF pattern[j] = Percent
  THEN \/ LikeFrom(str, i, pattern, j + 1, icase, escape)
       \/ /\ i <= Len(str)
          /\ LikeFrom(str, i + 1, pattern, j, icase, escape)
  ELSE /\ i <= Len(str)
       /\ \/ pattern[j] = Underscore
          \/ str[i] = pattern[j]
          \/ icase /\ ToLower(str[i]) = ToLower(pattern[j])
       /\ LikeFrom(str, i + 1, pattern, j + 1, icase, escape)

\* string_like_simple: the pattern occurs in str, byte for byte
LikeSimple(str, pattern, icase) ==
  \E at \in 0..(Len(str) - Len(pattern)) :
    \A k \in 1..Len(pattern) :
      \/ str[at + k] = pattern[k]
      \/ icase /\ ToLower(str[at + k]) = ToLower(pattern[k])

is_like(str, pattern, icase, is_simple, escape) ==
  IF is_simple THEN LikeSimple(str, pattern, icase)
  ELSE LikeFrom(str, 1, pattern, 1, icase, escape)

\* a regular expression of bytes, "." and postfix "*" against all of str
RECURSIVE RegexFrom(_, _, _, _)
RegexFrom(str, i, pattern, j) ==
  IF j > Len(pattern) THEN i > Len(str)
  ELSE LET one == i <= Len(str) /\ (pattern[j] = Dot \/ str[i] = pattern[j])
       IN  IF j < Len(pattern) /\ pattern[j + 1] = Star
           THEN \/ RegexFrom(str, i, pattern, j + 2)
                \/ one /\ RegexFrom(str, i + 1, pattern, j)
           ELSE one /\ RegexFrom(str, i + 1, pattern, j + 1)

is_regexp_like(str, pattern, escape) == RegexFrom(str, 1, pattern, 1)

\* the worker of getLike
LikeWorker(d, cache_key, generation, worker_idx) ==
  LET Matches(string_id) ==
        is_like(getStringUnlocked(d, string_id).str,
                cache_key[1], cache_key[2], cache_key[3], cache_key[4])
  IN  SelectSeq(WorkerIds(worker_idx, generation, CpuThreads), Matches)

\* the worker of getRegexpLike
RegexWorker(d, cache_key, generation, worker_idx) ==
  LET Matches(string_id) ==
        is_regexp_like(getStringUnlocked(d, string_id).str,
                       cache_key[1], cache_key[2])
  IN  SelectSeq(WorkerIds(worker_idx, generation, CpuThreads), Matches)

\* worker_results put one after the other, from worker_idx on
RECURSIVE ConcatResults(_, _)
ConcatResults(worker_results, worker_idx) ==
  IF worker_idx >= Len(worker_results) THEN <<>>
  ELSE worker_results[worker_idx + 1]
       \o ConcatResults(worker_results, worker_idx + 1)

\* getLike: the object afterwards and the result; ok is FALSE when a CHECK fails
getLike(d, pattern, icase, is_simple, escape, generation) ==
  LET cache_key == <<pattern, icase, is_simple, escape>>
  IN  IF cache_key \in DOMAIN d.like_cache
      THEN [d |-> d, ok |-> TRUE, val |-> d.like_cache[cache_key]]
      ELSE IF ~(generation <= d.str_count)
      THEN [d |-> d, ok |-> FALSE, val |-> <<>>]
      ELSE
        LET worker_results ==
              [w \in 1..CpuThreads |-> LikeWorker(d, cache_key, generation, w - 1)]
            result == ConcatResults(worker_results, 0)
        IN  [d |-> [d EXCEPT !.like_cache = CachePut(@, cache_key, result)],
             ok |-> TRUE, val |-> result]

\* getRegexpLike: as getLike, with regex_cache
getRegexpLike(d, pattern, escape, generation) ==
  LET cache_key == <<pattern, escape>>
  IN  IF cache_key \in DOMAIN d.regex_cache
      THEN [d |-> d, ok |-> TRUE, val |-> d.regex_cache[cache_key]]
      ELSE IF ~(generation <= d.str_count)
      THEN [d |-> d, ok |-> FALSE, val |-> <<>>]
      ELSE
        LET worker_results ==
              [w \in 1..CpuThreads |-> RegexWorker(d, cache_key, generation, w - 1)]
            result == ConcatResults(worker_results, 0)
        IN  [d |-> [d EXCEPT !.regex_cache = CachePut(@, cache_key, result)],
             ok |-> TRUE, val |-> result]

GetLike(pattern, icase, is_simple, escape, generation) ==
  /\ Running
  /\ ~bulk.active
  /\ ~scan.active
  /\ LET r == getLike(dict, pattern, icase, is_simple, escape, generation)
     IN  /\ dict' = r.d
         /\ ret' = IF ~r.ok
                   THEN Outcome("getLike", pattern, Aborted)
                   ELSE [op |-> "getLike", arg |-> pattern,
                         generation |-> generation, val |-> r.val]
  /\ UNCHANGED <<files, added, rw_mutex, pc, call, bulk, scan>>

GetRegexpLike(pattern, escape, generation) ==
  /\ Running
  /\ ~bulk.active
  /\ ~scan.active
  /\ LET r == getRegexpLike(dict, pattern, escape, generation)
     IN  /\ dict' = r.d
         /\ ret' = IF ~r.ok
                   THEN Outcome("getRegexpLike", pattern, Aborted)
                   ELSE [op |-> "getRegexpLike", arg |-> pattern,
                         generation |-> generation, val |-> r.val]
  /\ UNCHANGED <<files, added, rw_mutex, pc, call, bulk, scan>>

\* a client that inserts and scans with generations up to str_count
GenStrings == {StrAB, StrB, StrBB}
LikePattern == <<98, Percent>>
RegexPattern == <<98, Dot, Star>>
UnknownOperator == "!="
GenOperators == {"<", "=", "<>", UnknownOperator}

\* the generations the client passes: str_count and the one before
Generations == {g \in {dict.str_count - 1, dict.str_count} : g >= 0}

NextGen ==
  \/ \E str \in GenStrings : GetOrAdd(str)
  \/ \E comp_operator \in GenOperators, generation \in Generations :
       GetCompare(StrB, comp_operator, generation)
  \/ \E generation \in Generations :
       GetLike(LikePattern, FALSE, FALSE, Backslash, generation)
  \/ \E generation \in Generations :
       GetRegexpLike(RegexPattern, Backslash, generation)

SpecGen == InitScan /\ [][NextGen]_vars

\* the scans of the client
ScanOps == {"getLike", "getRegexpLike", "getCompare"}

\* C13: every id a scan returns when called with generation g <= str_count
\* is below g, whether the result was computed by the workers, taken from
\* like_cache, regex_cache or equal_cache, or read off the sorted cache.
C13_GenerationCut ==
  ret.op \in ScanOps => \A i \in 1..Len(ret.val) : ret.val[i] < ret.generation

----------------------------------------------------------------------------
(* A scan with its workers as threads *)

\* the id a worker examines after string_id, with the stride one
nextWorkerId_strideOne(string_id, worker_count) == string_id + 1

\* string_id += worker_count in the loop of a worker
nextWorkerId(string_id, worker_count) == string_id + worker_count

\* the predicate a worker of the scan applies to a string
ScanMatches(op, cache_key, str) ==
  IF op = "getLike"
  THEN is_like(str, cache_key[1], cache_key[2], cache_key[3], cache_key[4])
  ELSE is_regexp_like(str, cache_key[1], cache_key[2])

\* the cache a scan looks its key up in
ScanCache(d, op) == IF op = "getLike" THEN d.like_cache ELSE d.regex_cache

Workers == 1..CpuThreads

\* getLike / getRegexpLike up to the start of the workers: the write lock, the
\* cache lookup, which ends the call on a hit, and CHECK_LE(generation, str_count_)
ScanBegin(op, cache_key, generation) ==
  /\ Running
  /\ ~bulk.active
  /\ ~scan.active
  /\ rw_mutex = Unlocked
  /\ IF cache_key \in DOMAIN ScanCache(dict, op)
     THEN /\ ret' = [op |-> op, arg |-> cache_key[1], generation |-> generation,
                     val |-> ScanCache(dict, op)[cache_key], path |-> "cache"]
          /\ UNCHANGED <<scan, rw_mutex>>
     ELSE IF ~(generation <= dict.str_count)
     THEN /\ ret' = Outcome(op, cache_key[1], Aborted)
          /\ UNCHANGED <<scan, rw_mutex>>
     ELSE /\ scan' = [active |-> TRUE, op |-> op, cache_key |-> cache_key,
                      generation |-> generation,
                      string_id |-> [w \in Workers |-> w - 1],
                      examined |-> [w \in Workers |-> <<>>],
                      worker_results |-> [w \in Workers |-> <<>>]]
          /\ rw_mutex' = [readers |-> {}, writer |-> Client]
          /\ ret' = ret
  /\ UNCHANGED <<dict, files, added, pc, call, bulk>>

\* one iteration of the loop of worker w
WorkerStep(w) ==
  /\ scan.active
  /\ scan.string_id[w] < scan.generation
  /\ LET string_id == scan.string_id[w]
         str == getStringUnlocked(dict, string_id).str
     IN  scan' = [scan EXCEPT
                    !.string_id[w] = nextWorkerId(string_id, CpuThreads),
                    !.examined[w] = Append(@, string_id),
                    !.worker_results[w] =
                      IF ScanMatches(scan.op, scan.cache_key, str)
                      THEN Append(@, string_id) ELSE @]
  /\ UNCHANGED <<dict, files, ret, added, rw_mutex, pc, call, bulk>>

\* every worker has left its loop
WorkersDone == \A w \in Workers : scan.string_id[w] >= scan.generation

\* the join of the workers, the results put together, the cache entry, return
ScanJoin ==
  /\ scan.active
  /\ WorkersDone
  /\ LET result == ConcatResults(scan.worker_results, 0)
     IN  /\ dict' = IF scan.op = "getLike"
                    THEN [dict EXCEPT !.like_cache = CachePut(@, scan.cache_key, result)]
                    ELSE [dict EXCEPT !.regex_cache = CachePut(@, scan.cache_key, result)]
         /\ ret' = [op |-> scan.op, arg |-> scan.cache_key[1],
                    generation |-> scan.generation, val |-> result,
                    path |-> "scan"]
  /\ scan' = NoScan
  /\ rw_mutex' = Unlocked
  /\ UNCHANGED <<files, added, pc, call, bulk>>

WorkerStrings == {StrAB, StrB, StrBB, StrC}
LikeKey == <<LikePattern, FALSE, FALSE, Backslash>>
RegexKey == <<RegexPattern, Backslash>>

NextWorkers ==
  \/ \E str \in WorkerStrings : ~scan.active /\ GetOrAdd(str)
  \/ \E generation \in Generations : ScanBegin("getLike", LikeKey, generation)
  \/ \E generation \in Generations : ScanBegin("getRegexpLike", RegexKey, generation)
  \/ \E w \in Workers : WorkerStep(w)
  \/ ScanJoin

SpecWorkers == InitScan /\ [][NextWorkers]_vars

\* the ids below generation whose string, by the history, satisfies the scan
RefMatches(op, cache_key, generation) ==
  {i \in 0..(generation - 1) : ScanMatches(op, cache_key, added[i + 1])}

\* the ids of a result come worker by worker, each worker's in increasing order
InWorkerOrder(val) ==
  \A p, q \in 1..Len(val) :
    p < q => \/ val[p] % CpuThreads < val[q] % CpuThreads
             \/ val[p] % CpuThreads = val[q] % CpuThreads /\ val[p] < val[q]

\* C14: on a cache miss of getLike or getRegexpLike, worker w examines the ids
\* w, w + W, w + 2W, ... below generation, so that no id is examined by two
\* workers and, when all are done, every id below generation by one; the
\* result is the workers' matches in worker order: exactly the ids below
\* generation whose string satisfies the predicate, each once, whatever the
\* order in which the workers ran.
C14_WorkerPartition ==
  /\ scan.active
       => /\ \A w \in Workers :
               \A k \in 1..Len(scan.examined[w]) :
                 scan.examined[w][k] = (w - 1) + (k - 1) * CpuThreads
          /\ \A w1, w2 \in Workers :
               w1 # w2 => Range(scan.examined[w1]) \cap Range(scan.examined[w2]) = {}
          /\ WorkersDone
               => UNION {Range(scan.examined[w]) : w \in Workers}
                    = 0..(scan.generation - 1)
  /\ (ret.op \in {"getLike", "getRegexpLike"} /\ ret.path = "scan")
       => /\ Range(ret.val)
               = RefMatches(ret.op, IF ret.op = "getLike" THEN LikeKey ELSE RegexKey,
                            ret.generation)
          /\ Len(ret.val) = Cardinality(Range(ret.val))
          /\ InWorkerOrder(ret.val)

\* a scan over four strings has ended with matches of both workers
C14_Witness ==
  /\ ret.op = "getLike"
  /\ ret.path = "scan"
  /\ ret.generation = 4
  /\ Len(ret.val) >= 2
  /\ \E p, q \in 1..Len(ret.val) : ret.val[p] % CpuThreads # ret.val[q] % CpuThreads

----------------------------------------------------------------------------
(* An operator getCompare does not know *)

\* C16: getCompare with an operator other than <, <=, >, >=, =, <> on a
\* dictionary that holds a string does not return a result to the caller (it
\* ends with a runtime error).
C16_UnknownOperatorReported ==
  ~(/\ ret.op = "getCompare"
    /\ ret.comp_operator \notin CompOperators
    /\ dict.str_count > 0)

----------------------------------------------------------------------------
(* The snapshot of all strings *)

\* the str_count_ above which copyStrings copies with several workers (10000
\* in the code), scaled to the dictionaries of the model
MultithreadedAbove == 2

\* the lambda copy: the strings of the ids start_id .. end_id - 1
copy(d, start_id, end_id) ==
  [k \in 1..(end_id - start_id) |-> getStringUnlocked(d, start_id + k - 1).str]

RECURSIVE copyWorkers(_, _, _, _)
\* the chunks of the workers from worker_idx on, put together in worker order
copyWorkers(d, worker_idx, worker_count, stride) ==
  LET start == worker_idx * stride
      end == Min(start + stride, d.str_count)
  IN  IF worker_idx < worker_count /\ start < d.str_count
      THEN copy(d, start, end) \o copyWorkers(d, worker_idx + 1, worker_count, stride)
      ELSE <<>>

\* copyStrings: the object afterwards and the vector strings_cache_ points to;
\* ok is false when a CHECK of getStringUnlocked fails
copyStrings(d) ==
  IF d.strings_cache.present
  THEN [d |-> d, ok |-> TRUE, val |-> d.strings_cache.strings]
  ELSE
    LET multithreaded == d.str_count > MultithreadedAbove
        worker_count == IF multithreaded THEN CpuThreads ELSE 1
        stride == (d.str_count + (worker_count - 1)) \div worker_count
        strings == IF multithreaded
                   THEN copyWorkers(d, 0, worker_count, stride)
                   ELSE copy(d, 0, d.str_count)
    IN  [d |-> [d EXCEPT !.strings_cache = [present |-> TRUE, strings |-> strings]],
         ok |-> \A string_id \in 0..(d.str_count - 1) :
                  getStringUnlocked(d, string_id).ok,
         val |-> strings]

CopyStrings ==
  /\ Running
  /\ ~bulk.active
  /\ ~scan.active
  /\ LET r == copyStrings(dict)
     IN  /\ dict' = r.d
         /\ ret' = IF ~r.ok
                   THEN Outcome("copyStrings", <<>>, Aborted)
                   ELSE [op |-> "copyStrings", arg |-> <<>>, val |-> r.val]
  /\ UNCHANGED <<files, added, rw_mutex, pc, call, bulk, scan>>

CopyInputs == {StrA, StrAB, StrB, StrBB, StrC}

NextCopy ==
  \/ \E str \in CopyInputs : GetOrAdd(str)
  \/ CopyStrings

SpecCopy == InitScan /\ [][NextCopy]_vars

\* C15: the vector copyStrings returns has length str_count and its element i
\* is the string of id i, at every call, on the path with one worker and on
\* the path with several.
C15_CopyStringsSnapshot ==
  ret.op = "copyStrings"
    => /\ Len(ret.val) = dict.str_count
       /\ \A i \in 0..(dict.str_count - 1) :
            ret.val[i + 1] = getStringUnlocked(dict, i).str

----------------------------------------------------------------------------
(* The result of checkpoint *)

\* C18: checkpoint of a persistent dictionary returns true exactly when the
\* msync of the offsets mapping, the msync of the payload mapping, the fsync
\* of the offsets descriptor and the fsync of the payload descriptor all
\* succeed, and after the first of them that fails it makes no further call
\* and returns false; in remote mode it returns false when the forwarded call
\* returns false or throws.
C18_CheckpointAllFour ==
  ret.op = "checkpoint"
    => IF ret.client
       THEN /\ ret.remote \in {"false", "throws"} => ret.val = FALSE
            /\ ret.remote = "true" => ret.val = TRUE
       ELSE /\ ret.val = TRUE <=> \A k \in 1..4 : ret.synced[k]
            /\ ret.val = FALSE
                 => /\ ~ret.synced[ret.calls]
                    /\ \A k \in 1..(ret.calls - 1) : ret.synced[k]
            /\ ret.val = TRUE => ret.calls = 4

\* a checkpoint of a dictionary with strings whose first fsync failed
C18_Witness ==
  /\ ret.op = "checkpoint"
  /\ ~ret.client
  /\ dict.str_count >= 1
  /\ ret.synced[1] /\ ret.synced[2] /\ ~ret.synced[3]
  /\ ret.val = FALSE
  /\ ret.calls = 3

----------------------------------------------------------------------------
(* The constructor's check of initial_capacity *)

MaxInitialCapacity == 5

\* CHECK_EQ(size_t(0), (initial_capacity & (initial_capacity - 1))) in size_t:
\* for initial_capacity 0 the subtraction wraps to SIZE_MAX and 0 & SIZE_MAX
\* is 0
capacityCheck(initial_capacity) ==
  (IF initial_capacity = 0
   THEN 0
   ELSE BitAnd(initial_capacity, initial_capacity - 1)) = 0

\* the constructor on a temporary dictionary or on a new folder without
\* recover: the members as initialised, the CHECK_EQ, then the storage
Construct(isTemp, materializeHashes, initial_capacity) ==
  IF ~capacityCheck(initial_capacity)
  THEN [ok |-> FALSE, d |-> InitialFields(isTemp, materializeHashes, initial_capacity)]
  ELSE [ok |-> TRUE,
        d |-> IF isTemp
              THEN OpenEmpty(TRUE, materializeHashes, initial_capacity)
              ELSE OpenFolder(NoFiles, FALSE, materializeHashes, initial_capacity)]

InitOpen ==
  /\ \E isTemp \in BOOLEAN, materializeHashes \in BOOLEAN,
        initial_capacity \in 0..MaxInitialCapacity :
       LET c == Construct(isTemp, materializeHashes, initial_capacity)
       IN  /\ dict = c.d
           /\ files = IF c.ok /\ ~isTemp THEN OpenedFiles(FALSE) ELSE NoFiles
           /\ ret = IF c.ok
                    THEN [op |-> "open", arg |-> Empty, val |-> initial_capacity]
                    ELSE Outcome("open", Empty, Aborted)
  /\ added = <<>>
  /\ rw_mutex = Unlocked
  /\ pc = NoThreads
  /\ call = NoThreads
  /\ bulk = NoBulk
  /\ scan = NoScan

\* getOrAdd on the opened dictionary; on an index of length 0 computeBucket
\* reads data[hash & SIZE_MAX] of an empty vector
OpenGetOrAdd(str) ==
  IF Len(dict.str_ids) = 0
  THEN /\ Running
       /\ ret' = Outcome("getOrAdd", str, OutOfBounds)
       /\ UNCHANGED <<dict, files, added, rw_mutex, pc, call, bulk, scan>>
  ELSE GetOrAdd(str)

OpenStrings == {StrA, StrAB, StrB, StrC}

NextOpen == \E str \in OpenStrings : OpenGetOrAdd(str)

SpecOpen == InitOpen /\ [][NextOpen]_vars

NonZeroPowerOfTwo(n) == n > 0 /\ BitAnd(n, n - 1) = 0

\* C19: a dictionary is opened only with an initial_capacity that is a
\* non-zero power of two (any other is a fatal error), and in every state of
\* an opened dictionary the index length N is a non-zero power of two, so
\* that the bucket h & (N - 1) of a hash h is h mod N, a slot of the index.
C19_CapacityPowerOfTwo ==
  /\ ret.op = "open" => NonZeroPowerOfTwo(ret.val)
  /\ Running
       => /\ NonZeroPowerOfTwo(Len(dict.str_ids))
          /\ \A str \in OpenStrings :
               LET h == rk_hash(str)[2]
                   N == Len(dict.str_ids)
               IN  HomeBucket(rk_hash(str), N) = h % N

----------------------------------------------------------------------------
(* The offset records and the payload under growth *)

StrABC == <<97, 98, 99>>
StrBCA == <<98, 99, 97>>
StrCAB == <<99, 97, 98>>

\* strings of which three do not fit into the first payload buffer
StoreStrings == {StrABC, StrBCA, StrCAB, StrAB, StrC}
StoreBatch == <<StrBCA, StrC, StrABC, StrBCA>>

InitStore ==
  /\ \E isTemp \in BOOLEAN :
       /\ dict = Construct(isTemp, FALSE, 4).d
       /\ files = IF isTemp THEN NoFiles ELSE OpenedFiles(FALSE)
  /\ ret = [op |-> "open", arg |-> Empty, val |-> 0]
  /\ added = <<>>
  /\ rw_mutex = Unlocked
  /\ pc = NoThreads
  /\ call = NoThreads
  /\ bulk = NoBulk
  /\ scan = NoScan

NextStore ==
  \/ \E str \in StoreStrings : GetOrAdd(str)
  \/ Fits(StoreBatch) /\ BulkBegin(StoreBatch, "int32_t")
  \/ BulkStep
  \/ BulkEnd
  \/ \E string_id \in 0..(dict.str_count - 1) : GetString(string_id)

SpecStore == InitStore /\ [][NextStore]_vars

\* C20: for every id i below str_count the offset record at slot i is not a
\* canary, its offset plus its size lies within payload_file_off, the record
\* of id i + 1 starts where that of id i ends, and the payload bytes of id i
\* are the bytes inserted as the i-th new string, also after the payload and
\* the offset storage have grown.
C20_StorageInvariant ==
  Running
    => /\ dict.str_count = Len(added)
       /\ dict.payload_file_off <= dict.payload_file_size
       /\ \A i \in 0..(dict.str_count - 1) :
            LET str_meta == dict.offset_map[i + 1]
            IN  /\ str_meta.size # CanarySize
                /\ str_meta.off >= 0
                /\ str_meta.off + str_meta.size <= dict.payload_file_off
                /\ i + 1 < dict.str_count
                     => dict.offset_map[i + 2].off = str_meta.off + str_meta.size
                /\ SubSeq(dict.payload_map, str_meta.off + 1,
                          str_meta.off + str_meta.size) = added[i + 1]

\* four strings are stored, the payload buffer has grown once and the offset
\* storage with every string, and a string behind the first buffer is read
C20_Witness ==
  /\ dict.str_count = 4
  /\ dict.payload_file_size = 2 * CanaryBuffSize
  /\ dict.payload_file_off > CanaryBuffSize
  /\ dict.offset_file_size > CanaryBuffSize
  /\ ret.op = "getString"
  /\ ret.val = 3
  /\ ret.arg = added[4]
  /\ dict.offset_map[4].off + dict.offset_map[4].size > CanaryBuffSize

----------------------------------------------------------------------------
(* Lookups of other threads while a string is inserted *)

\* the strings stored before the threads start, those the writer inserts
\* (the second of them makes the index grow) and those the readers look up
VisStored == <<StrA, StrB>>
VisInserts == {StrC, StrAB}
VisLookups == {StrA, StrC, StrAB}
VisIds == {0, 2, 3}
VisBatch == <<StrC, StrAB>>

\* the thread that inserts; the others look up
Writer == Client

InitVis ==
  /\ \E materializeHashes \in BOOLEAN :
       dict = getOrAddImpl(
                getOrAddImpl(OpenEmpty(TRUE, materializeHashes, 4),
                             VisStored[1]).d,
                VisStored[2]).d
  /\ files = NoFiles
  /\ ret = [op |-> "getOrAdd", arg |-> VisStored[2], val |-> 1]
  /\ added = VisStored
  /\ rw_mutex = Unlocked
  /\ pc = [t \in Threads |-> "idle"]
  /\ call = [t \in Threads |-> Idle]
  /\ bulk = NoBulk
  /\ scan = NoScan

\* under the write lock: the bucket again, the return of an id found there,
\* CHECK_LT(str_count_, MAX_STRCOUNT), and the growth of the index with the
\* bucket in the new one
InsertProbe(t) ==
  /\ pc[t] = "insert"
  /\ LET str == call[t].str
         hash == rk_hash(str)
         bucket == computeBucket(dict, hash, str, dict.str_ids, FALSE)
     IN  IF bucket = Diverges
         THEN /\ pc' = [pc EXCEPT ![t] = "hung"]
              /\ UNCHANGED <<dict, call, rw_mutex>>
         ELSE IF dict.str_ids[bucket + 1] # INVALID_STR_ID
         THEN /\ call' = [call EXCEPT ![t].val = dict.str_ids[bucket + 1],
                                      ![t].returned = TRUE,
                                      ![t].path = "write_found"]
              /\ rw_mutex' = Unlocked
              /\ pc' = [pc EXCEPT ![t] = "idle"]
              /\ dict' = dict
         ELSE IF ~(dict.str_count < MAX_STRCOUNT) \/ ~hashWriteInBounds(dict)
         THEN /\ pc' = [pc EXCEPT ![t] = "hung"]
              /\ UNCHANGED <<dict, call, rw_mutex>>
         ELSE LET grow == fillRateIsHigh(dict)
                  d1 == IF grow THEN increaseCapacity(dict) ELSE dict
                  bucket1 == IF grow
                             THEN computeBucket(d1, hash, str, d1.str_ids, FALSE)
                             ELSE bucket
              IN  /\ dict' = d1
                  /\ call' = [call EXCEPT ![t] =
                                [str |-> str, val |-> 0, returned |-> FALSE,
                                 path |-> "write_new", bucket |-> bucket1]]
                  /\ pc' = [pc EXCEPT ![t] = "append"]
                  /\ rw_mutex' = rw_mutex
  /\ UNCHANGED <<files, ret, added, bulk, scan>>

\* appendToStorage(str)
InsertAppend(t) ==
  /\ pc[t] = "append"
  /\ dict' = appendToStorage(dict, call[t].str)
  /\ pc' = [pc EXCEPT ![t] = "slot"]
  /\ UNCHANGED <<files, ret, added, rw_mutex, call, bulk, scan>>

\* str_ids_[bucket] = static_cast<int32_t>(str_count_)
InsertSlot(t) ==
  /\ pc[t] = "slot"
  /\ dict' = [dict EXCEPT !.str_ids[call[t].bucket + 1] = dict.str_count]
  /\ pc' = [pc EXCEPT ![t] = "hash"]
  /\ UNCHANGED <<files, ret, added, rw_mutex, call, bulk, scan>>

\* if (materialize_hashes_) rk_hashes_[str_count_] = hash
InsertHash(t) ==
  /\ pc[t] = "hash"
  /\ dict' = IF dict.materialize_hashes
             THEN [dict EXCEPT !.rk_hashes[dict.str_count + 1] = rk_hash(call[t].str)]
             ELSE dict
  /\ pc' = [pc EXCEPT ![t] = "count"]
  /\ UNCHANGED <<files, ret, added, rw_mutex, call, bulk, scan>>

\* ++str_count_, invalidateInvertedIndex(), and the return of str_ids_[bucket],
\* which releases the write lock
InsertCount(t) ==
  /\ pc[t] = "count"
  /\ dict' = invalidateInvertedIndex([dict EXCEPT !.str_count = dict.str_count + 1])
  /\ added' = Append(added, call[t].str)
  /\ call' = [call EXCEPT ![t].val = dict.str_ids[call[t].bucket + 1],
                          ![t].returned = TRUE]
  /\ rw_mutex' = Unlocked
  /\ pc' = [pc EXCEPT ![t] = "idle"]
  /\ UNCHANGED <<files, ret, bulk, scan>>

\* a call of getIdOfString(str) or of getString(string_id) by thread t
LookupCall(t, op, str, string_id) ==
  /\ pc[t] = "idle"
  /\ call' = [call EXCEPT ![t] =
                [str |-> str, val |-> 0, returned |-> FALSE, path |-> op,
                 string_id |-> string_id, bucket |-> 0, res |-> Empty,
                 known |-> FALSE, expect |-> 0]]
  /\ pc' = [pc EXCEPT ![t] = "lookup_lock"]
  /\ UNCHANGED <<dict, files, ret, added, rw_mutex, bulk, scan>>

\* mapd_shared_lock read_lock(rw_mutex_) of a lookup; known and expect keep
\* what the inserts that have returned by now say about the argument
LookupLock(t) ==
  /\ pc[t] = "lookup_lock"
  /\ lock_shared(rw_mutex)
  /\ rw_mutex' = [rw_mutex EXCEPT !.readers = @ \cup {t}]
  /\ call' = [call EXCEPT
                ![t].known = IF call[t].path = "getIdOfString"
                             THEN call[t].str \in Range(added)
                             ELSE call[t].string_id < Len(added),
                ![t].expect = IF call[t].path = "getIdOfString"
                                 /\ call[t].str \in Range(added)
                              THEN IdOf(added, call[t].str) ELSE 0]
  /\ pc' = [pc EXCEPT ![t] = "lookup_probe"]
  /\ UNCHANGED <<dict, files, ret, added, bulk, scan>>

\* getUnlocked up to the bucket; getStringUnlocked up to its CHECK_LT
LookupProbe(t) ==
  /\ pc[t] = "lookup_probe"
  /\ IF call[t].path = "getIdOfString"
     THEN LET bucket == getOrAddImplProbe(dict, call[t].str)
          IN  IF bucket = Diverges
              THEN /\ pc' = [pc EXCEPT ![t] = "hung"]
                   /\ call' = call
              ELSE /\ call' = [call EXCEPT ![t].bucket = bucket]
                   /\ pc' = [pc EXCEPT ![t] = "lookup_read"]
     ELSE IF ~(call[t].string_id < dict.str_count)
          THEN /\ pc' = [pc EXCEPT ![t] = "aborted"]
               /\ call' = call
          ELSE /\ pc' = [pc EXCEPT ![t] = "lookup_read"]
               /\ call' = call
  /\ UNCHANGED <<dict, files, ret, added, rw_mutex, bulk, scan>>

\* str_ids_[bucket] of getUnlocked; getStringChecked of getStringUnlocked; the
\* return, which releases the shared lock
LookupRead(t) ==
  /\ pc[t] = "lookup_read"
  /\ IF call[t].path = "getIdOfString"
     THEN /\ call' = [call EXCEPT ![t].val = dict.str_ids[call[t].bucket + 1],
                                  ![t].returned = TRUE]
          /\ pc' = [pc EXCEPT ![t] = "idle"]
          /\ rw_mutex' = [rw_mutex EXCEPT !.readers = @ \ {t}]
     ELSE LET str_canary == getStringFromStorage(dict, call[t].string_id)
          IN  IF str_canary.canary
              THEN /\ pc' = [pc EXCEPT ![t] = "aborted"]
                   /\ UNCHANGED <<call, rw_mutex>>
              ELSE /\ call' = [call EXCEPT ![t].res = str_canary.str,
                                           ![t].returned = TRUE]
                   /\ pc' = [pc EXCEPT ![t] = "idle"]
                   /\ rw_mutex' = [rw_mutex EXCEPT !.readers = @ \ {t}]
  /\ UNCHANGED <<dict, files, ret, added, bulk, scan>>

NextVis ==
  \/ \E str \in VisInserts : ~bulk.active /\ ThreadCall(Writer, str)
  \/ pc[Writer] = "idle" /\ Fits(VisBatch) /\ BulkBegin(VisBatch, "int32_t")
  \/ BulkStep
  \/ BulkEnd
  \/ ReadLock(Writer)
  \/ ReadProbe(Writer)
  \/ WriteLock(Writer)
  \/ InsertProbe(Writer)
  \/ InsertAppend(Writer)
  \/ InsertSlot(Writer)
  \/ InsertHash(Writer)
  \/ InsertCount(Writer)
  \/ \E t \in Threads \ {Writer} :
       \/ \E str \in VisLookups : LookupCall(t, "getIdOfString", str, 0)
       \/ \E string_id \in VisIds : LookupCall(t, "getString", Empty, string_id)
       \/ LookupLock(t)
       \/ LookupProbe(t)
       \/ LookupRead(t)

SpecVis == InitVis /\ [][NextVis]_vars

\* the paths of a call that is a lookup
Lookups == {"getIdOfString", "getString"}

\* every id in the index is below str_count, its offset record is written and
\* its payload is the string inserted with that id
SlotsWritten ==
  \A bucket \in 1..Len(dict.str_ids) :
    LET string_id == dict.str_ids[bucket]
    IN  string_id # INVALID_STR_ID
          => /\ string_id < dict.str_count
             /\ string_id < Len(added)
             /\ ~getStringFromStorage(dict, string_id).canary
             /\ getStringFromStorage(dict, string_id).str = added[string_id + 1]

\* C17: once an insert of s, single or in a bulk insert, has returned k, a
\* getIdOfString(s) that takes the shared lock afterwards returns k and a
\* getString(k) that takes it afterwards returns s, from any thread; and
\* while a lookup holds the shared lock every id in an index slot has its
\* offset record and payload written.
C17_VisibilityOrdering ==
  /\ (ret.op = "getOrAddBulk" /\ ~bulk.active)
       => \A i \in 1..Len(ret.val) :
            /\ ret.arg[i] \in Range(added)
            /\ ret.val[i] = IdOf(added, ret.arg[i])
  /\ \A t \in Threads :
       (call[t].returned /\ call[t].path = "write_new")
         => /\ call[t].str \in Range(added)
            /\ call[t].val = IdOf(added, call[t].str)
  /\ \A t \in Threads :
       (call[t].returned /\ call[t].path = "getIdOfString" /\ call[t].known)
         => call[t].val = call[t].expect
  /\ \A t \in Threads :
       (call[t].path = "getString" /\ call[t].known /\ pc[t] = "idle")
         => /\ call[t].returned
            /\ call[t].res = added[call[t].string_id + 1]
  /\ \A t \in Threads :
       (call[t].path \in Lookups /\ pc[t] \in {"lookup_probe", "lookup_read"})
         => SlotsWritten

\* a thread has looked up, after the index has grown, a string that the other
\* thread inserted
C17_Witness ==
  \E t, u \in Threads :
    /\ t # u
    /\ call[t].returned /\ call[t].path = "getIdOfString" /\ call[t].known
    /\ call[t].val = 3
    /\ call[u].returned /\ call[u].path = "write_new"
    /\ call[u].str = call[t].str
    /\ Len(dict.str_ids) > 4

----------------------------------------------------------------------------
(* The length of the index under a long run of inserts *)

\* the number of pairwise distinct strings inserted
GrowCount == 1000000

\* the sizes of a dictionary opened with initial_capacity 1024: str_count_,
\* str_ids_.size(), and how often fillRateIsHigh() has held
InitGrow ==
  /\ dict = [str_count |-> 0, size |-> 1024, fired |-> 0]
  /\ files = NoFiles
  /\ ret = [op |-> "open", arg |-> Empty, val |-> 0]
  /\ added = <<>>
  /\ rw_mutex = Unlocked
  /\ pc = NoThreads
  /\ call = NoThreads
  /\ bulk = NoBulk
  /\ scan = NoScan

\* the strings of one bulk insert
GrowBatch == 1000

\* the insert of a string that is not stored, on the sizes alone: the check
\* of the fill rate with the count before the insert, increaseCapacity with
\* new_str_ids of twice the size, ++str_count_
growStep(g) ==
  LET grow == fillRateIsHighAt(g.size, g.str_count)
  IN  [str_count |-> g.str_count + 1,
       size |-> IF grow THEN g.size * 2 ELSE g.size,
       fired |-> IF grow THEN g.fired + 1 ELSE g.fired]

RECURSIVE growLoop(_, _)
\* the loop of getOrAddBulk over n strings that are not stored, as the first
\* half of its iterations followed by the rest
growLoop(g, n) ==
  IF n = 0 THEN g
  ELSE IF n = 1 THEN growStep(g)
  ELSE LET first == growLoop(g, n \div 2)
       IN  IF first.str_count = g.str_count + n \div 2
           THEN growLoop(first, n - n \div 2)
           ELSE first

\* getOrAdd of a string that is not stored
GrowInsert ==
  /\ dict.str_count < GrowCount
  /\ dict.str_count < MAX_STRCOUNT
  /\ dict' = growStep(dict)
  /\ UNCHANGED <<files, ret, added, rw_mutex, pc, call, bulk, scan>>

\* getOrAddBulk of GrowBatch pairwise distinct strings that are not stored,
\* which the client calls when it has stored a multiple of GrowBatch
GrowBulk ==
  /\ dict.str_count % GrowBatch = 0
  /\ dict.str_count + GrowBatch <= GrowCount
  /\ dict.str_count + GrowBatch <= MAX_STRCOUNT
  /\ dict' = growLoop(dict, GrowBatch)
  /\ UNCHANGED <<files, ret, added, rw_mutex, pc, call, bulk, scan>>

NextGrow == GrowInsert \/ GrowBulk

SpecGrow == InitGrow /\ [][NextGrow]_vars

\* C21: from initial_capacity 1024 the index length is 1024 doubled once for
\* every time the fill-rate trigger fired, it is at least twice the count
\* before the last insert, and after 1,000,000 distinct strings it is
\* 2,097,152, the smallest power of two that is at least 2,000,000.
C21_GrowthByDoubling ==
  /\ dict.size = 1024 * 2^dict.fired
  /\ dict.str_count >= 1 => dict.size >= 2 * (dict.str_count - 1)
  /\ dict.str_count = 1000000
       => /\ dict.size = 2097152
          /\ dict.size >= 2000000
          /\ dict.size \div 2 < 2000000

\* the millionth string is stored and the trigger has fired eleven times
C21_Witness ==
  /\ dict.str_count = 1000000
  /\ dict.fired = 11
  /\ dict.size = 2097152

----------------------------------------------------------------------------
(* checkpoint next to the threads that hold rw_mutex *)

\* a persistent dictionary after two inserts
InitLock ==
  /\ \E materializeHashes \in BOOLEAN :
       dict = getOrAddImpl(
                getOrAddImpl(OpenFolder(NoFiles, FALSE, materializeHashes, 4),
                             VisStored[1]).d,
                VisStored[2]).d
  /\ files = OpenedFiles(FALSE)
  /\ ret = [op |-> "getOrAdd", arg |-> VisStored[2], val |-> 1]
  /\ added = VisStored
  /\ rw_mutex = Unlocked
  /\ pc = [t \in Threads |-> "idle"]
  /\ call = [t \in Threads |-> Idle]
  /\ bulk = NoBulk
  /\ scan = NoScan

\* checkpoint up to its first msync: no client_, CHECK(!isTemp_); rw_mutex_
\* is not taken
CheckpointCall(t) ==
  /\ pc[t] = "idle"
  /\ call' = [call EXCEPT ![t] = [str |-> Empty, val |-> FALSE, returned |-> FALSE,
                                  path |-> "checkpoint"]]
  /\ pc' = [pc EXCEPT ![t] = IF dict.isTemp THEN "aborted" ELSE "msync"]
  /\ UNCHANGED <<dict, files, ret, added, rw_mutex, bulk, scan>>

\* the two msync on offset_map_, offset_file_size_, payload_map_ and
\* payload_file_size_ and the two fsync; while another thread is in its
\* write section the reads race with its writes and the behaviour is
\* undefined: the call returns its result or the thread ends
CheckpointSync(t, synced) ==
  /\ pc[t] = "msync"
  /\ \/ /\ call' = [call EXCEPT ![t].val = checkpoint(dict, synced).val,
                                ![t].returned = TRUE]
        /\ pc' = [pc EXCEPT ![t] = "idle"]
     \/ /\ rw_mutex.writer \notin {0, t}
        /\ call' = call
        /\ pc' = [pc EXCEPT ![t] = "undefined"]
  /\ UNCHANGED <<dict, files, ret, added, rw_mutex, bulk, scan>>

NextLock ==
  \/ NextVis
  \/ \E t \in Threads \ {Writer} :
       \/ CheckpointCall(t)
       \/ \E synced \in [1..4 -> BOOLEAN] : CheckpointSync(t, synced)

SpecLock == InitLock /\ [][NextLock]_vars

\* where a thread reads or writes the index, the hashes, the caches or the
\* storage metadata
StateAccess ==
  {"probe", "insert", "append", "slot", "hash", "count",
   "lookup_probe", "lookup_read", "msync"}

\* C22: a thread reads or writes the mutable state only while it holds
\* rw_mutex, shared or exclusive, so that no operation, checkpoint included,
\* runs while another thread is in the write section of an insert.
C22_OneLockGuardsAll ==
  /\ \A t \in Threads :
       pc[t] \in StateAccess => (t \in rw_mutex.readers \/ rw_mutex.writer = t)
  /\ \A t \in Threads : pc[t] # "undefined"

----------------------------------------------------------------------------
(* The ids in the index *)

\* the positions of the index that hold an id
FilledSlots == {b \in 1..Len(dict.str_ids) : dict.str_ids[b] # INVALID_STR_ID}

\* C23: in every state of an open dictionary (after the open, after a
\* recovery, after every insert, between the elements of a bulk insert and
\* after every resize) the index has exactly str_count slots that hold an id,
\* these ids are pairwise distinct and are the ids 0 .. str_count - 1, and
\* every other slot holds INVALID_STR_ID.
C23_IndexInvariant ==
  (Running /\ files.open)
    => /\ Cardinality(FilledSlots) = dict.str_count
       /\ {dict.str_ids[b] : b \in FilledSlots} = 0..(dict.str_count - 1)
       /\ \A b, c \in FilledSlots : dict.str_ids[b] = dict.str_ids[c] => b = c

\* a recovered dictionary whose index was rebuilt from three records and has
\* taken a fourth string since
C23_Witness ==
  /\ files.open
  /\ files.recovered
  /\ dict.str_count = 4
  /\ Len(added) = 4
  /\ ret.op = "getOrAdd"
  /\ ret.val = 3
  /\ Cardinality(FilledSlots) = 4

----------------------------------------------------------------------------
(* The end of a probe *)

\* C24: every probe of computeBucket and of computeUniqueBucketWithHash
\* ends: no call hangs, because in every state the index has a slot that
\* holds INVALID_STR_ID.
C24_ProbeTerminates ==
  /\ ret.op # "hung"
  /\ Running => \E b \in 1..Len(dict.str_ids) : dict.str_ids[b] = INVALID_STR_ID

----------------------------------------------------------------------------
(* The scan caches next to the inserts *)

\* a client that inserts one string at a time and in batches and scans
\* with every kind of scan at the current generation
CacheBatches == { <<StrB, Empty, StrBB>>, <<StrAB, StrAB>>, <<Empty>> }

NextCache ==
  \/ \E str \in GenStrings : GetOrAdd(str)
  \/ \E string_vec \in CacheBatches : Fits(string_vec) /\ BulkBegin(string_vec, "int32_t")
  \/ BulkStep
  \/ BulkEnd
  \/ \E comp_operator \in {"<", "="} : GetCompare(StrB, comp_operator, dict.str_count)
  \/ GetLike(LikePattern, FALSE, FALSE, Backslash, dict.str_count)
  \/ GetRegexpLike(RegexPattern, Backslash, dict.str_count)

SpecCache == InitScan /\ [][NextCache]_vars

\* the four caches invalidateInvertedIndex empties
ScanCaches(d) == <<d.like_cache, d.regex_cache, d.equal_cache, d.compare_cache>>

NoCachedScans(d) == ScanCaches(d) = <<(<<>>), (<<>>), (<<>>), (<<>>)>>

\* C25: a get_or_add that adds a string and every get_or_add_bulk that
\* returns leave the LIKE, regex, equal and compare caches empty; a
\* get_or_add that finds its string leaves the four caches as they were.
C25_InsertInvalidates ==
  [][ /\ (ret'.op = "getOrAdd" /\ ~bulk.active /\ Len(added') > Len(added))
           => NoCachedScans(dict')
      /\ (ret'.op = "getOrAddBulk" /\ bulk.active /\ ~bulk'.active)
           => NoCachedScans(dict')
      /\ (ret'.op = "getOrAdd" /\ added' = added /\ ~bulk.active /\ ~bulk'.active)
           => ScanCaches(dict') = ScanCaches(dict) ]_vars

\* a single insert has emptied caches that held an entry of each kind
C25_Witness ==
  /\ ret.op = "getOrAdd"
  /\ ret.val = 2
  /\ dict.str_count = 3
  /\ NoCachedScans(dict)
  /\ dict.sorted_cache # <<>>

----------------------------------------------------------------------------
(* The cached scans next to the scans without a cache *)

\* getLike on a dictionary whose like_cache holds nothing
uncachedLike(d, pattern, generation) ==
  getLike([d EXCEPT !.like_cache = <<>>], pattern, FALSE, FALSE, Backslash, generation).val

\* getRegexpLike on a dictionary whose regex_cache holds nothing
uncachedRegexpLike(d, pattern, generation) ==
  getRegexpLike([d EXCEPT !.regex_cache = <<>>], pattern, Backslash, generation).val

\* C26: what get_like and get_regexp_like return, from the cache or not,
\* is what a scan without the cache returns for the same pattern and the
\* same generation on the strings stored now.
C26_CacheTransparent ==
  /\ ret.op = "getLike" => ret.val = uncachedLike(dict, ret.arg, ret.generation)
  /\ ret.op = "getRegexpLike" => ret.val = uncachedRegexpLike(dict, ret.arg, ret.generation)

----------------------------------------------------------------------------
(* The three ways to an answer for "=" *)

\* the way getCompare takes for "=" in dictionary d
EqualsPath(d, pattern) ==
  IF Len(d.sorted_cache) < d.str_count
  THEN IF pattern \in DOMAIN d.equal_cache THEN "equal_cache" ELSE "scan"
  ELSE "sorted_cache"

\* the id of the stored string equal to pattern, as a list
RefEquals(pattern) ==
  IF pattern \in Range(added) THEN <<IdOf(added, pattern)>> ELSE <<>>

\* C27: get_compare(p, "=", str_count) returns the id of the stored string
\* equal to p, or nothing when there is none, in every state: after the
\* equality scan, on a hit in equal_cache and by binary search in a sorted
\* cache that is current.
C27_EqualsOneAnswer ==
  /\ (ret.op = "getCompare" /\ ret.comp_operator = "="
        /\ ret.generation = dict.str_count) => ret.val = RefEquals(ret.arg)
  /\ (Running /\ dict.str_count > 0)
       => \A pattern \in Patterns :
            getCompare(dict, pattern, "=", dict.str_count).val = RefEquals(pattern)

\* a call answered from equal_cache, with the sorted cache stale
C27_Witness ==
  /\ ret.op = "getCompare"
  /\ ret.comp_operator = "="
  /\ ret.val = <<1>>
  /\ EqualsPath(dict, ret.arg) = "equal_cache"
  /\ dict.sorted_cache # <<>>

----------------------------------------------------------------------------
(* The inclusive operators next to the strict ones *)

\* the ids get_compare returns in dictionary d at generation str_count
CompareIds(d, pattern, comp_operator) ==
  Range(getCompare(d, pattern, comp_operator, d.str_count).val)

\* C28: in every state and for every pattern, at generation str_count,
\* "<=" returns the ids of "<" and of "=", ">=" returns the ids of ">" and
\* of "=", and "<=" and ">" share no id and leave none of 0..str_count-1 out.
C28_InclusiveIsStrictOrEqual ==
  (Running /\ dict.str_count > 0)
    => \A pattern \in Patterns :
         /\ CompareIds(dict, pattern, "<=")
              = CompareIds(dict, pattern, "<") \cup CompareIds(dict, pattern, "=")
         /\ CompareIds(dict, pattern, ">=")
              = CompareIds(dict, pattern, ">") \cup CompareIds(dict, pattern, "=")
         /\ CompareIds(dict, pattern, "<=") \cap CompareIds(dict, pattern, ">") = {}
         /\ CompareIds(dict, pattern, "<=") \cup CompareIds(dict, pattern, ">")
              = 0..(dict.str_count - 1)

----------------------------------------------------------------------------
(* The pair the binary search stores *)

\* the positions of the sorted cache whose string is smaller than pattern
SmallerPositions(pattern) ==
  {i \in 0..(Len(dict.sorted_cache) - 1) :
     RefLess(added[dict.sorted_cache[i + 1] + 1], pattern)}

\* C29: every pair {index, diff} in compare_cache has an index that is a
\* position of the sorted cache; diff is 0 exactly when the pattern is
\* stored, and then sorted_cache[index] is its id; otherwise diff is 1 and
\* index is the position of the largest smaller string, or 0 when the
\* pattern precedes every stored string.
C29_BinarySearchResult ==
  Running =>
    \A pattern \in DOMAIN dict.compare_cache :
      LET cache_index == dict.compare_cache[pattern]
      IN  /\ cache_index.index \in 0..(Len(dict.sorted_cache) - 1)
          /\ cache_index.diff = 0 <=> pattern \in Range(added)
          /\ cache_index.diff = 0
               => dict.sorted_cache[cache_index.index + 1] = IdOf(added, pattern)
          /\ cache_index.diff # 0
               => /\ cache_index.diff = 1
                  /\ cache_index.index
                       = IF SmallerPositions(pattern) = {} THEN 0
                         ELSE Cardinality(SmallerPositions(pattern)) - 1

----------------------------------------------------------------------------
(* The sorted cache *)

\* the stored string at position i of the sorted cache, i from 0
SortedString(i) == added[dict.sorted_cache[i + 1] + 1]

\* C30: the sorted cache holds each id below its length once, in
\* non-decreasing order of the strings; it covers 0..str_count-1 whenever an
\* ordered get_compare has used it and whenever compare_cache has an entry,
\* also after it was built, strings were added and it was built again; and
\* every pair in compare_cache is the pair the binary search gives on the
\* sorted cache as it is now.
C30_SortedCacheInvariant ==
  Running =>
    /\ Len(dict.sorted_cache) <= dict.str_count
    /\ Range(dict.sorted_cache) = 0..(Len(dict.sorted_cache) - 1)
    /\ \A i, j \in 0..(Len(dict.sorted_cache) - 1) :
         i < j => ~RefLess(SortedString(j), SortedString(i))
    /\ (ret.op = "getCompare" /\ ret.comp_operator \in OrderedOperators)
         => Len(dict.sorted_cache) = dict.str_count
    /\ \A pattern \in DOMAIN dict.compare_cache :
         /\ Len(dict.sorted_cache) = dict.str_count
         /\ dict.compare_cache[pattern] = compareCacheValue(dict, pattern)

\* an ordered scan on a cache of four ids in which a later id comes first
C30_Witness ==
  /\ ret.op = "getCompare"
  /\ ret.comp_operator = "<="
  /\ dict.str_count = 4
  /\ Len(dict.sorted_cache) = 4
  /\ dict.sorted_cache[1] = 3
  /\ ret.arg \in DOMAIN dict.compare_cache

----------------------------------------------------------------------------
(* The index before and after increaseCapacity *)

\* the empty table of twice the length that increaseCapacity starts from
DoubledTable(d) == [i \in 1..(Len(d.str_ids) * 2) |-> INVALID_STR_ID]

\* the index of twice the length, filled by walking the old table
TableRebuild(d) ==
  [d EXCEPT !.str_ids = rebucketFromTable(d, DoubledTable(d), 0, Len(d.str_ids))]

\* the index of twice the length, filled by hashing the stored strings again
StorageRebuild(d) ==
  [d EXCEPT !.str_ids = rebucketFromStorage(d, DoubledTable(d), 0, d.str_count)]

\* C31: in every state increaseCapacity gives an index of twice the length
\* and changes neither str_count, payload_file_off nor the stored records,
\* every inserted string still looks up to its id, and the rebuild from the
\* materialized hashes and the rebuild from storage answer every lookup alike.
C31_ResizePreservesMapping ==
  Running =>
    LET resized == increaseCapacity(dict)
    IN  /\ Len(resized.str_ids) = 2 * Len(dict.str_ids)
        /\ resized.str_count = dict.str_count
        /\ resized.payload_file_off = dict.payload_file_off
        /\ resized.offset_map = dict.offset_map
        /\ resized.payload_map = dict.payload_map
        /\ \A i \in 1..Len(added) : getUnlocked(resized, added[i]) = i - 1
        /\ \A str \in Strings \ Range(added) :
             getUnlocked(resized, str) = INVALID_STR_ID
        /\ dict.materialize_hashes
             => \A str \in Strings :
                  getUnlocked(TableRebuild(dict), str)
                    = getUnlocked(StorageRebuild(dict), str)

\* an insert that resized an index of four slots with materialized hashes
C31_Witness ==
  /\ ret.op = "getOrAdd"
  /\ ret.val = 3
  /\ dict.materialize_hashes
  /\ Len(dict.str_ids) = 8
  /\ dict.str_count = 4

----------------------------------------------------------------------------
(* The length of rk_hashes *)

\* C33: with materialized hashes no call writes or reads rk_hashes outside
\* its length: the ids in the index are below the length of rk_hashes, and
\* so is str_count, where the next insert writes its hash (after the resize,
\* when the fill rate asks for one).
C33_HashAccessInBounds ==
  /\ ret.op # "undefined"
  /\ (Running /\ dict.materialize_hashes)
       => /\ \A b \in 1..Len(dict.str_ids) :
               dict.str_ids[b] # INVALID_STR_ID => dict.str_ids[b] < Len(dict.rk_hashes)
          /\ hashWriteInBounds(dict)

----------------------------------------------------------------------------
(* The materialized hashes *)

\* the dictionary probed with the payload compared in every filled slot
Unmaterialized(d) == [d EXCEPT !.materialize_hashes = FALSE]

\* C32: with materialize_hashes, in every state in which calls return,
\* rk_hashes has an element for every id below str_count and it is the hash
\* of the string with that id, and every probe ends in the slot in which it
\* ends when the hashes are not consulted.
C32_MaterializedHashes ==
  (Running /\ files.open /\ dict.materialize_hashes)
    => /\ dict.str_count <= Len(dict.rk_hashes)
       /\ dict.str_count = Len(added)
       /\ \A i \in 1..dict.str_count : dict.rk_hashes[i] = rk_hash(added[i])
       /\ \A str \in Strings :
            /\ getUnlocked(dict, str) = getUnlocked(Unmaterialized(dict), str)
            /\ getOrAddImplProbe(dict, str) = getOrAddImplProbe(Unmaterialized(dict), str)

\* a recovered dictionary with materialized hashes after a resize
C32_Witness ==
  /\ files.open
  /\ files.recovered
  /\ dict.materialize_hashes
  /\ dict.str_count = 4
  /\ Len(dict.str_ids) = 8
  /\ ret.op = "getOrAdd"
  /\ ret.val = 3

----------------------------------------------------------------------------
(* A bulk insert next to the calls of the other threads *)

\* the string the other threads insert and the pattern they scan for
OtherInsert == StrBB
OtherPattern == StrAB

\* mapd_lock_guard write_lock(rw_mutex_) of getCompare, taken by thread t
ScanLock(t) ==
  /\ pc[t] = "idle"
  /\ rw_mutex = Unlocked
  /\ rw_mutex' = [rw_mutex EXCEPT !.writer = t]
  /\ pc' = [pc EXCEPT ![t] = "scan"]
  /\ UNCHANGED <<dict, files, ret, added, call, bulk, scan>>

\* getCompare(pattern, "=", str_count) under the lock, and its return
ScanRun(t) ==
  /\ pc[t] = "scan"
  /\ LET r == getCompare(dict, OtherPattern, "=", dict.str_count)
     IN  /\ dict' = r.d
         /\ call' = [call EXCEPT ![t] = [str |-> OtherPattern, val |-> r.val,
                                         returned |-> TRUE, path |-> "getCompare"]]
  /\ rw_mutex' = Unlocked
  /\ pc' = [pc EXCEPT ![t] = "idle"]
  /\ UNCHANGED <<files, ret, added, bulk, scan>>

\* the first thread inserts VisBatch in bulk; the others insert, look up and scan
NextAtomic ==
  \/ pc[Writer] = "idle" /\ BulkBegin(VisBatch, "int32_t")
  \/ BulkStep
  \/ BulkEnd
  \/ \E t \in Threads \ {Writer} :
       \/ ThreadCall(t, OtherInsert)
       \/ ReadLock(t)
       \/ ReadProbe(t)
       \/ WriteLock(t)
       \/ InsertProbe(t)
       \/ InsertAppend(t)
       \/ InsertSlot(t)
       \/ InsertHash(t)
       \/ InsertCount(t)
       \/ \E str \in Range(VisBatch) : LookupCall(t, "getIdOfString", str, 0)
       \/ LookupLock(t)
       \/ LookupProbe(t)
       \/ LookupRead(t)
       \/ ScanLock(t)
       \/ ScanRun(t)

SpecAtomic == InitVis /\ [][NextAtomic]_vars

\* the positions of a thread that holds rw_mutex, shared or exclusive
UnderLock ==
  {"probe", "insert", "append", "slot", "hash", "count",
   "lookup_probe", "lookup_read", "scan"}

\* C34: from the entry of get_or_add_bulk to its return the calling thread
\* holds rw_mutex exclusively and no other thread is inside a lookup, a scan
\* or an insert; the two new strings of the batch get ids that follow each
\* other in batch order; and a thread that holds the lock sees both strings
\* of the batch or neither.
C34_BulkAtomic ==
  /\ bulk.active
       => /\ rw_mutex = [readers |-> {}, writer |-> Writer]
          /\ \A t \in Threads \ {Writer} : pc[t] \notin UnderLock
  /\ ret.op = "getOrAddBulk"
       => /\ ret.val[2] = ret.val[1] + 1
          /\ \A i \in 1..Len(ret.val) : ret.val[i] = IdOf(added, ret.arg[i])
  /\ \A t \in Threads \ {Writer} :
       pc[t] \in UnderLock
         => (VisBatch[1] \in Range(added) <=> VisBatch[2] \in Range(added))

\* the batch has returned after another thread's insert, and a thread is
\* looking up a string of the batch under the shared lock
C34_Witness ==
  /\ ret.op = "getOrAddBulk"
  /\ ret.val = <<3, 4>>
  /\ \E t \in Threads \ {Writer} :
       /\ pc[t] = "lookup_read"
       /\ call[t].str = VisBatch[2]

----------------------------------------------------------------------------
(* Codes of a narrow width from a dictionary filled through a wider one *)

\* the batches encoded after the dictionary holds U8Count strings: a new
\* string, a stored string, and the empty string with a new string
WideBatches == { <<StrA>>, <<U8String(1)>>, <<Empty, StrB>> }

\* a client that fills the dictionary with one batch of width uint16_t and
\* then encodes a batch of any width
NextWide ==
  \/ ret.op = "open" /\ BulkBegin(U8Batch(0), "uint16_t")
  \/ \E string_vec \in WideBatches, T \in Widths :
       /\ ret.op = "getOrAddBulk"
       /\ dict.str_count = U8Count
       /\ BulkBegin(string_vec, T)
  \/ BulkStep
  \/ BulkEnd

SpecWide == Init /\ [][NextWide]_vars

\* C35: every code get_or_add_bulk<T> has written is the null value of T or
\* is the id of its input string, so that get_string of the code gives the
\* input string back, whatever the dictionary held before the call.
C35_NoSilentTruncation ==
  ret.op = "getOrAddBulk"
    => \A i \in 1..Len(ret.val) :
         \/ ret.val[i] = inline_int_null_value(ret.T)
         \/ /\ ret.arg[i] \in Range(added)
            /\ ret.val[i] = IdOf(added, ret.arg[i])
            /\ getStringUnlocked(dict, ret.val[i]).str = ret.arg[i]

----------------------------------------------------------------------------
(* The codes of a bulk insert through the remote dictionary *)

\* the loop of getOrAddBulkRemote<T> over the ids the remote call returned,
\* from the i-th on
RECURSIVE getOrAddBulkRemoteFrom(_, _, _)
getOrAddBulkRemoteFrom(string_ids, T, i) ==
  IF i > Len(string_ids) THEN <<>>
  ELSE LET string_id == string_ids[i]
           invalid == string_id > max_valid_int_value(T)
       IN  << IF invalid \/ string_id = inline_int_null_value("int32_t")
              THEN inline_int_null_value(T)
              ELSE StoreAs(T, string_id) >>
           \o getOrAddBulkRemoteFrom(string_ids, T, i + 1)

getOrAddBulkRemote(string_ids, T) == getOrAddBulkRemoteFrom(string_ids, T, 1)

\* the ids the remote call may return: around the limits of each width
RemoteIds ==
  {0, 1, 127, 128, 254, 255, 256, 32767, 32768, 65534, 65535, 65536,
   2147483646, 2147483647, NullValueInt32}

\* the longest answer of the remote call
MaxRemoteLen == 2

RemoteAnswers == UNION {[1..n -> RemoteIds] : n \in 0..MaxRemoteLen}

\* getOrAddBulk<T> of a dictionary with a remote client
GetOrAddBulkRemote(string_ids, T) ==
  /\ ret' = [op |-> "getOrAddBulkRemote", arg |-> string_ids, T |-> T,
             val |-> getOrAddBulkRemote(string_ids, T)]
  /\ UNCHANGED <<dict, files, added, rw_mutex, pc, call, bulk, scan>>

NextRemote ==
  \E string_ids \in RemoteAnswers, T \in Widths : GetOrAddBulkRemote(string_ids, T)

SpecRemote == InitScan /\ [][NextRemote]_vars

\* the ids the loop of getOrAddBulk<T> gives to a new string: str_count_,
\* unless it equals max_valid_int_value<T>(), and below MAX_STRCOUNT
LocalAssigns(T, string_id) ==
  /\ string_id >= 0
  /\ string_id # max_valid_int_value(T)
  /\ string_id < MAX_STRCOUNT

\* C36: getOrAddBulkRemote<T> writes one code per id of the answer, in
\* order; the null value of T for an id above max_valid_int_value<T>() or
\* equal to the null value of int32_t, the id itself otherwise; and the ids
\* it writes unchanged are the ids the local bulk insert of width T assigns.
C36_RemoteNarrowing ==
  ret.op = "getOrAddBulkRemote"
    => /\ Len(ret.val) = Len(ret.arg)
       /\ \A i \in 1..Len(ret.arg) :
            LET string_id == ret.arg[i]
                null == string_id > max_valid_int_value(ret.T)
                          \/ string_id = NullValueInt32
            IN  /\ null => ret.val[i] = inline_int_null_value(ret.T)
                /\ ~null => ret.val[i] = string_id
                /\ ~null <=> LocalAssigns(ret.T, string_id)

----------------------------------------------------------------------------
(* appendToStorage statement by statement *)

InitAppend ==
  /\ \E isTemp \in BOOLEAN :
       /\ dict = Construct(isTemp, FALSE, 4).d
       /\ files = IF isTemp THEN NoFiles ELSE OpenedFiles(FALSE)
  /\ ret = [op |-> "open", arg |-> Empty, val |-> 0]
  /\ added = <<>>
  /\ rw_mutex = Unlocked
  /\ pc = [t \in Threads |-> "idle"]
  /\ call = [t \in Threads |-> Idle]
  /\ bulk = NoBulk
  /\ scan = NoScan

\* the entry into appendToStorage without the test of the payload capacity
AppendPayloadCheck_noGrow(t) ==
  /\ pc[t] = "append"
  /\ dict' = dict
  /\ call' = [call EXCEPT ![t] =
                [str |-> @.str, val |-> @.val, returned |-> @.returned,
                 path |-> @.path, bucket |-> @.bucket, entry |-> dict,
                 str_meta |-> CanaryEntry]]
  /\ pc' = [pc EXCEPT ![t] = "payload_write"]
  /\ UNCHANGED <<files, ret, added, rw_mutex, bulk, scan>>

\* the test of the payload capacity and the growth it asks for
AppendPayloadCheck(t) ==
  /\ pc[t] = "append"
  /\ dict' = IF dict.payload_file_off + Len(call[t].str) > dict.payload_file_size
             THEN addPayloadCapacity(dict) ELSE dict
  /\ call' = [call EXCEPT ![t] =
                [str |-> @.str, val |-> @.val, returned |-> @.returned,
                 path |-> @.path, bucket |-> @.bucket, entry |-> dict,
                 str_meta |-> CanaryEntry]]
  /\ pc' = [pc EXCEPT ![t] = "payload_write"]
  /\ UNCHANGED <<files, ret, added, rw_mutex, bulk, scan>>

\* memcpy(payload_map_ + payload_file_off_, str.c_str(), str.size())
AppendPayloadWrite(t) ==
  /\ pc[t] = "payload_write"
  /\ dict' = [dict EXCEPT !.payload_map =
                Memcpy(dict.payload_map, dict.payload_file_off, call[t].str)]
  /\ pc' = [pc EXCEPT ![t] = "advance"]
  /\ UNCHANGED <<files, ret, added, rw_mutex, call, bulk, scan>>

\* str_meta from payload_file_off_, then payload_file_off_ += str.size()
AppendAdvance(t) ==
  /\ pc[t] = "advance"
  /\ call' = [call EXCEPT ![t].str_meta =
                [off |-> dict.payload_file_off, size |-> Len(call[t].str)]]
  /\ dict' = [dict EXCEPT !.payload_file_off = @ + Len(call[t].str)]
  /\ pc' = [pc EXCEPT ![t] = "offset_check"]
  /\ UNCHANGED <<files, ret, added, rw_mutex, bulk, scan>>

\* the offset capacity test with > in place of >=
AppendOffsetCheck_strict(t) ==
  /\ pc[t] = "offset_check"
  /\ dict' = IF dict.str_count * SizeofStringIdxEntry + SizeofStringIdxEntry
                  > dict.offset_file_size
             THEN addOffsetCapacity(dict) ELSE dict
  /\ pc' = [pc EXCEPT ![t] = "offset_write"]
  /\ UNCHANGED <<files, ret, added, rw_mutex, call, bulk, scan>>

\* the test of the offset capacity and the growth it asks for
AppendOffsetCheck(t) ==
  /\ pc[t] = "offset_check"
  /\ dict' = IF dict.str_count * SizeofStringIdxEntry + SizeofStringIdxEntry
                  >= dict.offset_file_size
             THEN addOffsetCapacity(dict) ELSE dict
  /\ pc' = [pc EXCEPT ![t] = "offset_write"]
  /\ UNCHANGED <<files, ret, added, rw_mutex, call, bulk, scan>>

\* memcpy(offset_map_ + str_count_, &str_meta, sizeof(str_meta))
AppendOffsetWrite(t) ==
  /\ pc[t] = "offset_write"
  /\ dict' = [dict EXCEPT !.offset_map[dict.str_count + 1] = call[t].str_meta]
  /\ pc' = [pc EXCEPT ![t] = "slot"]
  /\ UNCHANGED <<files, ret, added, rw_mutex, call, bulk, scan>>

NextAppend ==
  \/ \E str \in StoreStrings : Len(added) < MaxStrCount /\ ThreadCall(Writer, str)
  \/ ReadLock(Writer)
  \/ ReadProbe(Writer)
  \/ WriteLock(Writer)
  \/ InsertProbe(Writer)
  \/ AppendPayloadCheck(Writer)
  \/ AppendPayloadWrite(Writer)
  \/ AppendAdvance(Writer)
  \/ AppendOffsetCheck(Writer)
  \/ AppendOffsetWrite(Writer)
  \/ InsertSlot(Writer)
  \/ InsertHash(Writer)
  \/ InsertCount(Writer)

SpecAppend == InitAppend /\ [][NextAppend]_vars

\* the thread is inside appendToStorage or behind it, before the return
Appending == pc[Writer] \in {"payload_write", "advance", "offset_check",
                               "offset_write", "slot", "hash", "count"}

\* the bytes of the string being appended are in the payload storage, at the
\* offset the append was entered with
PayloadWritten ==
  /\ Appending
  /\ LET off == call[Writer].entry.payload_file_off
         str == call[Writer].str
     IN  /\ off + Len(str) <= Len(dict.payload_map)
         /\ SubSeq(dict.payload_map, off + 1, off + Len(str)) = str

\* the offset record of the string being appended is in the offset storage
RecordWritten ==
  /\ Appending
  /\ dict.str_count + 1 <= Len(dict.offset_map)
  /\ dict.offset_map[dict.str_count + 1] =
       [off |-> call[Writer].entry.payload_file_off,
        size |-> Len(call[Writer].str)]

\* a step that writes bytes into storage of unchanged size
WritesPayload == /\ Len(dict'.payload_map) = Len(dict.payload_map)
                 /\ dict'.payload_map # dict.payload_map

\* a step that writes a record into offset storage of unchanged size
WritesRecord == /\ Len(dict'.offset_map) = Len(dict.offset_map)
                /\ dict'.offset_map # dict.offset_map

\* C38 as the specification states it: within one append, each write is
\* made with the capacity for it already there, the payload bytes are
\* written before the offset record, and payload_file_off and str_count
\* change only when both the payload bytes and the offset record have been
\* written.
C38_CountersAfterBothWrites ==
  [][ /\ WritesPayload
           => /\ dict.payload_file_off + Len(call[Writer].str)
                   <= dict.payload_file_size
              /\ ~RecordWritten
      /\ WritesRecord
           => /\ (dict.str_count + 1) * SizeofStringIdxEntry
                   <= dict.offset_file_size
              /\ PayloadWritten
      /\ dict'.str_count # dict.str_count => PayloadWritten /\ RecordWritten
      /\ dict'.payload_file_off # dict.payload_file_off
           => PayloadWritten /\ RecordWritten
    ]_vars

\* C38, amended: within one append, each write is made with the capacity
\* for it already there, the payload bytes are written before the offset
\* record, payload_file_off is advanced after the payload bytes have been
\* written and before the offset record is, and str_count changes only when
\* both have been written.
C38_AppendOrdering ==
  [][ /\ WritesPayload
           => /\ dict.payload_file_off + Len(call[Writer].str)
                   <= dict.payload_file_size
              /\ ~RecordWritten
      /\ WritesRecord
           => /\ (dict.str_count + 1) * SizeofStringIdxEntry
                   <= dict.offset_file_size
              /\ PayloadWritten
      /\ dict'.str_count # dict.str_count => PayloadWritten /\ RecordWritten
      /\ dict'.payload_file_off # dict.payload_file_off
           => PayloadWritten /\ ~RecordWritten
    ]_vars

\* an append that grew the payload and the offset storage has written both
\* and has not yet counted the string
C38_Witness ==
  /\ pc[Writer] = "slot"
  /\ PayloadWritten
  /\ RecordWritten
  /\ dict.payload_file_size > call[Writer].entry.payload_file_size
  /\ dict.offset_file_size > call[Writer].entry.offset_file_size
  /\ dict.str_count = 2

\* the storage past the last live record: canary records from slot
\* str_count on, canary bytes from payload_file_off on
CanaryTail(d) ==
  /\ \A i \in (d.str_count + 1)..Len(d.offset_map) : d.offset_map[i] = CanaryEntry
  /\ \A i \in (d.payload_file_off + 1)..Len(d.payload_map) :
       d.payload_map[i] = CanaryByte

----------------------------------------------------------------------------
(* The static canary buffer, with one dictionary constructed per thread *)

\* what the bytes of a block that malloc returned and nobody filled may read
\* as: any value, of which two are kept
JunkBytes == {0, CanaryByte}

\* the offset record that sizeof(StringIdxEntry) bytes of one value make
EntryOfBytes(byte) ==
  IF byte = CanaryByte THEN CanaryEntry ELSE [off |-> 0, size |-> 0]

\* addPayloadCapacity with the bytes read from CANARY_BUFFER
addPayloadCapacityFrom(d, byte) ==
  [d EXCEPT !.payload_map = d.payload_map \o [i \in 1..CanaryBuffSize |-> byte],
            !.payload_file_size = d.payload_file_size + CanaryBuffSize]

\* addOffsetCapacity with the bytes read from CANARY_BUFFER
addOffsetCapacityFrom(d, byte) ==
  LET size == d.offset_file_size + CanaryBuffSize
  IN  [d EXCEPT !.offset_map =
                  d.offset_map \o
                  [i \in 1..(EntriesIn(size) - Len(d.offset_map)) |->
                     EntryOfBytes(byte)],
                !.offset_file_size = size]

\* a fresh process: CANARY_BUFFER is nullptr, nothing is allocated, and every
\* thread is about to construct a dictionary of its own; here files holds
\* the state of the process outside the dictionaries, dict one dictionary per
\* thread
InitCanary ==
  /\ \E isTemp \in [Threads -> BOOLEAN] :
       dict = [t \in Threads |-> InitialFields(isTemp[t], FALSE, 4)]
  /\ files = [CANARY_BUFFER |-> 0, heap |-> <<>>]
  /\ ret = [op |-> "open", arg |-> Empty, val |-> 0]
  /\ added = <<>>
  /\ rw_mutex = Unlocked
  /\ pc = [t \in Threads |-> "idle"]
  /\ call = [t \in Threads |-> Idle]
  /\ bulk = NoBulk
  /\ scan = NoScan

\* the constructor up to if (payload_file_size_ == 0) addPayloadCapacity()
ConstructCall(t) ==
  /\ pc[t] = "idle"
  /\ ~call[t].returned
  /\ call' = [call EXCEPT ![t].path = "addPayloadCapacity"]
  /\ pc' = [pc EXCEPT ![t] = "canary_test"]
  /\ UNCHANGED <<dict, files, ret, added, rw_mutex, bulk, scan>>

\* if (!CANARY_BUFFER)
CanaryTest(t) ==
  /\ pc[t] = "canary_test"
  /\ pc' = [pc EXCEPT ![t] = IF files.CANARY_BUFFER = 0
                             THEN "canary_malloc" ELSE "canary_copy"]
  /\ UNCHANGED <<dict, files, ret, added, rw_mutex, call, bulk, scan>>

\* CANARY_BUFFER = static_cast<char*>(malloc(CANARY_BUFF_SIZE))
CanaryMalloc(t) ==
  /\ pc[t] = "canary_malloc"
  /\ files' = [CANARY_BUFFER |-> Len(files.heap) + 1,
               heap |-> Append(files.heap, [filled |-> FALSE])]
  /\ pc' = [pc EXCEPT ![t] = "canary_memset"]
  /\ UNCHANGED <<dict, ret, added, rw_mutex, call, bulk, scan>>

\* CHECK(CANARY_BUFFER); memset(CANARY_BUFFER, 0xff, CANARY_BUFF_SIZE)
CanaryMemset(t) ==
  /\ pc[t] = "canary_memset"
  /\ files' = [files EXCEPT !.heap[files.CANARY_BUFFER].filled = TRUE]
  /\ pc' = [pc EXCEPT ![t] = "canary_copy"]
  /\ UNCHANGED <<dict, ret, added, rw_mutex, call, bulk, scan>>

\* write(fd, CANARY_BUFFER, CANARY_BUFF_SIZE), or realloc and memcpy from
\* CANARY_BUFFER, and the return to the constructor, which goes on to
\* addOffsetCapacity() or is done
CanaryCopy(t) ==
  /\ pc[t] = "canary_copy"
  /\ \E byte \in JunkBytes :
       /\ files.heap[files.CANARY_BUFFER].filled => byte = CanaryByte
       /\ dict' = [dict EXCEPT ![t] =
                     IF call[t].path = "addPayloadCapacity"
                     THEN addPayloadCapacityFrom(dict[t], byte)
                     ELSE addOffsetCapacityFrom(dict[t], byte)]
  /\ IF call[t].path = "addPayloadCapacity"
     THEN /\ call' = [call EXCEPT ![t].path = "addOffsetCapacity"]
          /\ pc' = [pc EXCEPT ![t] = "canary_test"]
     ELSE /\ call' = [call EXCEPT ![t].path = "constructed",
                                  ![t].returned = TRUE]
          /\ pc' = [pc EXCEPT ![t] = "idle"]
  /\ UNCHANGED <<files, ret, added, rw_mutex, bulk, scan>>

NextCanary ==
  \E t \in Threads :
    \/ ConstructCall(t)
    \/ CanaryTest(t)
    \/ CanaryMalloc(t)
    \/ CanaryMemset(t)
    \/ CanaryCopy(t)

SpecCanary == InitCanary /\ [][NextCanary]_vars

\* C40: while the threads construct their dictionaries, at most one block is
\* ever allocated for the canary buffer, no thread copies from the buffer
\* before it has been filled, and every byte and every offset record a
\* growth has appended to a dictionary's storage is 0xFF.
C40_SharedCanaryOnce ==
  /\ Len(files.heap) <= 1
  /\ \A t \in Threads :
       /\ pc[t] = "canary_copy" => files.heap[files.CANARY_BUFFER].filled
       /\ \A i \in 1..Len(dict[t].payload_map) :
            dict[t].payload_map[i] = CanaryByte
       /\ \A i \in 1..Len(dict[t].offset_map) :
            dict[t].offset_map[i] = CanaryEntry

----------------------------------------------------------------------------
(* The recover branch with its asynchronous workers *)

\* distinct strings of three bytes, enough of them for more than one chunk
\* of items_per_thread records, with hashes that leave the probe sequences
\* short
SchedString(k) == <<33 + (k \div 64), 33 + (k % 64), 97 + (k % 3)>>

\* getOrAddImpl on SchedString(lo), ..., SchedString(hi - 1), in this order
RECURSIVE written(_, _, _)
written(d, lo, hi) ==
  IF hi <= lo THEN d
  ELSE IF hi = lo + 1 THEN getOrAddImpl(d, SchedString(lo)).d
  ELSE LET mid == (lo + hi) \div 2
           first == written(d, lo, mid)
       IN  IF first.str_count < 0 THEN first ELSE written(first, mid, hi)

\* recoverWorker(d, lo, hi), the range taken by halves
RECURSIVE recoverWorkerRange(_, _, _)
recoverWorkerRange(d, lo, hi) ==
  IF hi <= lo + 1 THEN recoverWorker(d, lo, hi)
  ELSE LET mid == (lo + hi) \div 2
           first == recoverWorkerRange(d, lo, mid)
       IN  IF Len(first) < mid - lo THEN first
           ELSE first \o recoverWorkerRange(d, mid, hi)

\* processDictionaryFutures(d, hashVec, 1) on the pairs lo .. hi - 1 of
\* hashVec, the range taken by halves
RECURSIVE processPairs(_, _, _, _)
processPairs(d, hashVec, lo, hi) ==
  IF hi <= lo THEN d
  ELSE IF hi = lo + 1 THEN processDictionaryFutures(d, <<hashVec[lo]>>, 1)
  ELSE LET mid == (lo + hi) \div 2
           first == processPairs(d, hashVec, lo, mid)
       IN  IF first.str_count < 0 THEN first
           ELSE processPairs(first, hashVec, mid, hi)

\* the strings the dictionary holds at the start, and at most
SchedWritten == 1999
SchedCount == 2003

\* the main thread is outside the constructor
NotRecovering ==
  [state |-> "open", string_id |-> 0, thread_inits |-> 0, str_count |-> 0,
   future |-> 0]

InitSched ==
  /\ dict = written(OpenFolder(NoFiles, FALSE, FALSE, 4), 0, SchedWritten)
  /\ files = OpenedFiles(FALSE)
  /\ ret = [op |-> "open", arg |-> Empty, val |-> 0]
  /\ added = [i \in 1..SchedWritten |-> SchedString(i - 1)]
  /\ rw_mutex = Unlocked
  /\ pc = NotRecovering
  /\ call = <<>>
  /\ bulk = NoBulk
  /\ scan = NoScan

\* getOrAdd of the next new string
SchedGetOrAdd ==
  /\ pc.state = "open"
  /\ files.open
  /\ dict.str_count < SchedCount
  /\ LET str == SchedString(dict.str_count)
         r == getOrAddImpl(dict, str)
     IN  /\ dict' = r.d
         /\ ret' = Outcome("getOrAdd", str, r.val)
         /\ added' = Append(added, str)
  /\ UNCHANGED <<files, rw_mutex, pc, call, bulk, scan>>

\* the constructor with recover up to the loop over the chunks, under the
\* write lock it takes
SchedOpen(materializeHashes) ==
  /\ pc.state = "open"
  /\ ~files.open
  /\ dict' = recoverTables(mapFolder(files, TRUE, materializeHashes, 4))
  /\ files' = OpenedFiles(TRUE)
  /\ ret' = [op |-> "open", arg |-> Empty, val |-> 0]
  /\ rw_mutex' = [rw_mutex EXCEPT !.writer = Client]
  /\ pc' = [state |-> "loop", string_id |-> 0, thread_inits |-> 0,
            str_count |-> EntriesIn(files.offset_file_size), future |-> 0]
  /\ call' = <<>>
  /\ UNCHANGED <<added, bulk, scan>>

\* one iteration of the loop: std::async of the worker of the chunk at
\* string_id, thread_inits++, and the test that sends the main thread to
\* processDictionaryFutures
SchedSubmit ==
  /\ pc.state = "loop"
  /\ pc.string_id < pc.str_count
  /\ call' = Append(call, [string_id |-> pc.string_id, done |-> 0,
                           hashVec |-> <<>>])
  /\ pc' = IF (pc.thread_inits + 1) % HardwareConcurrency = 0
           THEN [pc EXCEPT !.thread_inits = @ + 1, !.state = "process"]
           ELSE [pc EXCEPT !.thread_inits = @ + 1,
                           !.string_id = @ + items_per_thread(pc.str_count)]
  /\ UNCHANGED <<dict, files, ret, added, rw_mutex, bulk, scan>>

\* the end of the loop: the last few futures are gathered, or none is left
\* and the constructor returns
SchedLoopEnd ==
  /\ pc.state = "loop"
  /\ ~(pc.string_id < pc.str_count)
  /\ IF Len(call) # 0
     THEN /\ pc' = [pc EXCEPT !.state = "gather"]
          /\ rw_mutex' = rw_mutex
     ELSE /\ pc' = NotRecovering
          /\ rw_mutex' = Unlocked
  /\ UNCHANGED <<dict, files, ret, added, call, bulk, scan>>

\* the worker of the k-th future runs to its end, whenever it is scheduled;
\* done numbers the workers in the order they finish in
SchedWorker(k) ==
  /\ call[k].done = 0
  /\ LET end_id == Min(call[k].string_id + items_per_thread(pc.str_count),
                       pc.str_count)
     IN  call' = [call EXCEPT
                    ![k].hashVec = recoverWorkerRange(dict, call[k].string_id,
                                                      end_id),
                    ![k].done = Cardinality({j \in 1..Len(call) :
                                               call[j].done # 0}) + 1]
  /\ UNCHANGED <<dict, files, ret, added, rw_mutex, pc, bulk, scan>>

\* processDictionaryFutures that takes the futures from the last one back
SchedProcess_lastFirst ==
  /\ pc.state \in {"process", "gather"}
  /\ pc.future < Len(call)
  /\ call[Len(call) - pc.future].done # 0
  /\ dict' = LET hashVec == call[Len(call) - pc.future].hashVec
             IN  processPairs(dict, hashVec, 1, Len(hashVec) + 1)
  /\ IF pc.future + 1 < Len(call)
     THEN /\ pc' = [pc EXCEPT !.future = @ + 1]
          /\ UNCHANGED <<call, rw_mutex>>
     ELSE /\ call' = <<>>
          /\ IF pc.state = "process"
             THEN /\ pc' = [pc EXCEPT !.state = "loop", !.future = 0,
                                      !.string_id =
                                        @ + items_per_thread(pc.str_count)]
                  /\ rw_mutex' = rw_mutex
             ELSE /\ pc' = NotRecovering
                  /\ rw_mutex' = Unlocked
  /\ UNCHANGED <<files, ret, added, bulk, scan>>

\* processDictionaryFutures, one future at a time in the order of the
\* vector: wait, get, install the pairs; after the last one clear() and the
\* return to the loop or, from the gathering call, out of the constructor
SchedProcess ==
  /\ pc.state \in {"process", "gather"}
  /\ pc.future < Len(call)
  /\ call[pc.future + 1].done # 0
  /\ dict' = LET hashVec == call[pc.future + 1].hashVec
             IN  processPairs(dict, hashVec, 1, Len(hashVec) + 1)
  /\ IF pc.future + 1 < Len(call)
     THEN /\ pc' = [pc EXCEPT !.future = @ + 1]
          /\ UNCHANGED <<call, rw_mutex>>
     ELSE /\ call' = <<>>
          /\ IF pc.state = "process"
             THEN /\ pc' = [pc EXCEPT !.state = "loop", !.future = 0,
                                      !.string_id =
                                        @ + items_per_thread(pc.str_count)]
                  /\ rw_mutex' = rw_mutex
             ELSE /\ pc' = NotRecovering
                  /\ rw_mutex' = Unlocked
  /\ UNCHANGED <<files, ret, added, bulk, scan>>

NextSched ==
  \/ SchedGetOrAdd
  \/ pc.state = "open" /\ Close
  \/ \E materializeHashes \in BOOLEAN : SchedOpen(materializeHashes)
  \/ SchedSubmit
  \/ SchedLoopEnd
  \/ \E k \in 1..Len(call) : SchedWorker(k)
  \/ SchedProcess

SpecSched == InitSched /\ [][NextSched]_vars

\* the sizes of the strings lo .. hi - 1 of seq, counted from 1, added up
RECURSIVE SumSizes(_, _, _)
SumSizes(seq, lo, hi) ==
  IF hi <= lo THEN 0
  ELSE IF hi = lo + 1 THEN Len(seq[lo])
  ELSE SumSizes(seq, lo, (lo + hi) \div 2) + SumSizes(seq, (lo + hi) \div 2, hi)

\* C37: while a dictionary is recovered and after, whatever order the workers
\* finish in: a worker that has finished holds the (hash, size) pairs of the
\* live records of its chunk and of no canary record; the main thread, about
\* to install the pairs of a future, has installed exactly the live records
\* in front of that chunk; the record of every installed id k is the k-th
\* string stored, and that string is found with id k; the ids in the index
\* are 0 .. str_count - 1, each in one slot; payload_file_off is the sum of
\* the sizes of the installed strings; and when the constructor has returned
\* every live record is installed.
C37_RecoveryInSubmissionOrder ==
  (files.open /\ files.recovered)
    => /\ dict.str_count <= Len(added)
       /\ pc.state = "open" => dict.str_count = Len(added)
       /\ \A j \in 1..Len(call) :
            call[j].done # 0
              => LET lo == call[j].string_id
                     hi == Min(lo + items_per_thread(pc.str_count), pc.str_count)
                     n == Max(0, Min(hi, Len(added)) - lo)
                 IN  /\ Len(call[j].hashVec) = n
                     /\ \A i \in 1..n :
                          call[j].hashVec[i] =
                            [hash |-> rk_hash(added[lo + i]),
                             size |-> Len(added[lo + i])]
       /\ (pc.state \in {"process", "gather"} /\ pc.future < Len(call))
            => dict.str_count = Min(Len(added), call[pc.future + 1].string_id)
       /\ \A k \in 0..(dict.str_count - 1) :
            /\ getStringFromStorage(dict, k).str = added[k + 1]
            /\ getUnlocked(dict, added[k + 1]) = k
       /\ {dict.str_ids[b] : b \in 1..Len(dict.str_ids)} \ {INVALID_STR_ID}
            = 0..(dict.str_count - 1)
       /\ Cardinality({b \in 1..Len(dict.str_ids) :
                         dict.str_ids[b] # INVALID_STR_ID}) = dict.str_count
       /\ dict.payload_file_off = SumSizes(added, 1, dict.str_count + 1)

\* two chunks hold live records, the worker of the second chunk finished
\* first, and the main thread has installed the first chunk and nothing else
C37_Witness ==
  /\ files.open /\ files.recovered
  /\ pc.state = "process"
  /\ pc.future = 1
  /\ Len(call) = 2
  /\ call[2].done = 1
  /\ call[1].done = 2
  /\ Len(call[2].hashVec) >= 1
  /\ dict.str_count = items_per_thread(pc.str_count)

====
